---------------------------- MODULE Spec2Model ----------------------------
(***************************************************************************)
(* A model of rename_and_move_files.py: the filename allocator            *)
(* (UniqueFilenameGenerator), the planner, the move executor with its     *)
(* worker pool and interrupt handling, and main's exit status.            *)
(*                                                                         *)
(* File names, folder names and timestamps are sequences of one-character *)
(* strings, so that rfind, slicing and f-string concatenation are         *)
(* computed as the Python code computes them.  A path is a sequence of    *)
(* such components.                                                        *)
(***************************************************************************)
EXTENDS Integers, Sequences, FiniteSets, TLC

(***************************************************************************)
(* Bounds of the model.                                                    *)
(*                                                                         *)
(* Ceiling stands for the literal 99999 of generate()'s probe loop         *)
(* (`while counter <= 99999`), scaled down so that exhausting it is        *)
(* reachable; every formula below is stated in terms of Ceiling.           *)
(***************************************************************************)
Ceiling == 3

\* generate() calls made on one generator in the allocator specification:
\* enough to exhaust the ceiling twice for one base name.
MaxCalls == Ceiling + 2

(***************************************************************************)
(* Strings                                                                 *)
(***************************************************************************)
Digit == <<"0", "1", "2", "3", "4", "5", "6", "7", "8", "9">>

\* str(n) inside an f-string, n >= 0: decimal, no padding.
RECURSIVE IntToStr(_)
IntToStr(n) ==
    IF n < 10 THEN <<Digit[n + 1]>>
    ELSE IntToStr(n \div 10) \o <<Digit[(n % 10) + 1]>>

\* str.rfind("."): the 0-based index of the last ".", or -1.
RFindDot(s) ==
    LET dots == {i \in 1..Len(s) : s[i] = "."}
    IN  IF dots = {} THEN -1
        ELSE (CHOOSE i \in dots : \A j \in dots : j <= i) - 1

\* generate(), lines 311-318: "name.ext", "name", or ".hidden".
SplitStem(base_filename) ==
    LET dot_pos == RFindDot(base_filename)
    IN  IF dot_pos > 0 THEN SubSeq(base_filename, 1, dot_pos)
        ELSE base_filename

SplitSuffix(base_filename) ==
    LET dot_pos == RFindDot(base_filename)
    IN  IF dot_pos > 0
        THEN SubSeq(base_filename, dot_pos + 1, Len(base_filename))
        ELSE <<>>

\* f"{stem}_{counter}{suffix}"
Candidate(stem, counter, suffix) ==
    stem \o <<"_">> \o IntToStr(counter) \o suffix

\* Characters in ASCII order (those of the names used), for sorting.
AsciiOrder ==
    <<"!", ".", "0", "1", "2", "3", "4", "5", "6", "7", "8", "9",
      "A", "B", "C", "D", "E", "F", "G", "H", "I", "J", "K", "L", "M",
      "N", "O", "P", "Q", "R", "S", "T", "U", "V", "W", "X", "Y", "Z", "_",
      "a", "b", "c", "d", "e", "f", "g", "h", "i", "j", "k", "l", "m",
      "n", "o", "p", "q", "r", "s", "t", "u", "v", "w", "x", "y", "z">>

Ord(c) == CHOOSE i \in 1..Len(AsciiOrder) : AsciiOrder[i] = c

\* str.lower() / str.casefold() of one ASCII character.
LowerChar(c) ==
    IF Ord(c) >= Ord("A") /\ Ord(c) <= Ord("Z")
    THEN AsciiOrder[Ord(c) - Ord("A") + Ord("a")]
    ELSE c

\* Mutant of Lower: the case is left as it is.
LowerKeepsCase(s) == s

Lower(s) == [i \in 1..Len(s) |-> LowerChar(s[i])]

\* s < t for Python strings: by code point, a proper prefix first.
RECURSIVE StrLess(_, _)
StrLess(s, t) ==
    IF t = <<>> THEN FALSE
    ELSE IF s = <<>> THEN TRUE
    ELSE IF s[1] # t[1] THEN Ord(s[1]) < Ord(t[1])
    ELSE StrLess(Tail(s), Tail(t))

\* os.path.splitext(name)[1]: from the last ".", leading dots not counted.
SplitExt(name) ==
    LET dot_pos == RFindDot(name)
    IN  IF dot_pos >= 0 /\ \E j \in 1..dot_pos : name[j] # "."
        THEN SubSeq(name, dot_pos + 1, Len(name))
        ELSE <<>>

\* Mutant of PathSuffix: the extension comes out in lower case.
PathSuffixLowered(name) ==
    LET i == RFindDot(name)
    IN  IF 0 < i /\ i < Len(name) - 1
        THEN Lower(SubSeq(name, i + 1, Len(name)))
        ELSE <<>>

\* PurePath.suffix and PurePath.stem of a file name.
PathSuffix(name) ==
    LET i == RFindDot(name)
    IN  IF 0 < i /\ i < Len(name) - 1 THEN SubSeq(name, i + 1, Len(name))
        ELSE <<>>

PathStem(name) ==
    LET i == RFindDot(name)
    IN  IF 0 < i /\ i < Len(name) - 1 THEN SubSeq(name, 1, i)
        ELSE name

RAW_EXTENSIONS ==
    {<<".", "c", "r", "3">>, <<".", "d", "n", "g">>, <<".", "a", "r", "w">>,
     <<".", "n", "e", "f">>, <<".", "o", "r", "f">>, <<".", "r", "a", "f">>,
     <<".", "r", "w", "2">>}

JPEG_EXTENSIONS == {<<".", "j", "p", "g">>, <<".", "j", "p", "e", "g">>}

ALL_EXTENSIONS == RAW_EXTENSIONS \cup JPEG_EXTENSIONS

(***************************************************************************)
(* The filesystem: the set of directories and the set of regular files,    *)
(* each a path.                                                            *)
(***************************************************************************)
VARIABLES fs_dirs, fs_files

fsVars == <<fs_dirs, fs_files>>

Parent(p) == SubSeq(p, 1, Len(p) - 1)
Name(p) == p[Len(p)]

\* os.scandir(folder) filtered by entry.is_file(): the names of the regular
\* files directly in folder.  Of a folder that is no directory: the OSError
\* is swallowed and the set stays empty.
ScanDirFilesNoDisk(dirs, files, folder) == {}

ScanDirFiles(dirs, files, folder) ==
    IF folder \in dirs
    THEN {Name(p) : p \in {q \in files : Len(q) > 0 /\ Parent(q) = folder}}
    ELSE {}

(***************************************************************************)
(* UniqueFilenameGenerator                                                 *)
(***************************************************************************)
VARIABLES
    existing_cache,   \* _existing_cache: folder -> set of names
    allocated,        \* _allocated: folder -> set of names
    log_errors,       \* number of log.error("Too many duplicates ...") calls
    gen_log,          \* history: one record per generate() call, in order
    first_disk        \* history: folder -> names on disk at its first query

genVars == <<existing_cache, allocated, log_errors, gen_log, first_disk>>

\* The while loop of lines 320-326 from `counter`, and the fallback of lines
\* 328-331 when it runs out.
RECURSIVE ProbeLoop(_, _, _, _, _)
ProbeLoop(existing, alloc, stem, suffix, counter) ==
    IF counter <= Ceiling
    THEN LET new_filename == Candidate(stem, counter, suffix)
         IN  IF new_filename \notin existing /\ new_filename \notin alloc
             THEN [result |-> new_filename, error |-> FALSE]
             ELSE ProbeLoop(existing, alloc, stem, suffix, counter + 1)
    ELSE [result |-> Candidate(stem, counter, suffix), error |-> TRUE]

\* Mutants of Generate (each a plausible slip in lines 304-331).
GenerateIgnoresAllocated(existing, alloc, base_filename) ==
    IF base_filename \notin existing
    THEN [result |-> base_filename, error |-> FALSE]
    ELSE ProbeLoop(existing, {}, SplitStem(base_filename),
                   SplitSuffix(base_filename), 2)

GenerateIgnoresDisk(existing, alloc, base_filename) ==
    IF base_filename \notin alloc
    THEN [result |-> base_filename, error |-> FALSE]
    ELSE ProbeLoop({}, alloc, SplitStem(base_filename),
                   SplitSuffix(base_filename), 2)

GenerateCountsFromOne(existing, alloc, base_filename) ==
    IF base_filename \notin existing /\ base_filename \notin alloc
    THEN [result |-> base_filename, error |-> FALSE]
    ELSE ProbeLoop(existing, alloc, SplitStem(base_filename),
                   SplitSuffix(base_filename), 1)

GenerateSplitsAtFirstChar(existing, alloc, base_filename) ==
    IF base_filename \notin existing /\ base_filename \notin alloc
    THEN [result |-> base_filename, error |-> FALSE]
    ELSE LET dot_pos == RFindDot(base_filename)
             stem == IF dot_pos >= 0 THEN SubSeq(base_filename, 1, dot_pos)
                     ELSE base_filename
             suffix == IF dot_pos >= 0
                       THEN SubSeq(base_filename, dot_pos + 1, Len(base_filename))
                       ELSE <<>>
         IN  ProbeLoop(existing, alloc, stem, suffix, 2)

GenerateFallbackAtCeiling(existing, alloc, base_filename) ==
    IF base_filename \notin existing /\ base_filename \notin alloc
    THEN [result |-> base_filename, error |-> FALSE]
    ELSE LET r == ProbeLoop(existing, alloc, SplitStem(base_filename),
                            SplitSuffix(base_filename), 2)
         IN  IF r.error
             THEN [result |-> Candidate(SplitStem(base_filename), Ceiling,
                                        SplitSuffix(base_filename)),
                   error |-> TRUE]
             ELSE r

\* generate(), lines 304-331, on the two sets of one folder: the name it
\* returns and whether it logged the "Too many duplicates" error.  The name
\* is added to the allocated set on every path (lines 308, 324, 330).
Generate(existing, alloc, base_filename) ==
    IF base_filename \notin existing /\ base_filename \notin alloc
    THEN [result |-> base_filename, error |-> FALSE]
    ELSE ProbeLoop(existing, alloc, SplitStem(base_filename),
                   SplitSuffix(base_filename), 2)

\* Mutant of GetExisting: the folder is listed again on every call.
GetExistingRescans(cache, dirs, files, folder) ==
    ScanDirFiles(dirs, files, folder)

\* _get_existing(folder) and _get_allocated(folder) against the caches.
GetExisting(cache, dirs, files, folder) ==
    IF folder \in DOMAIN cache THEN cache[folder]
    ELSE ScanDirFiles(dirs, files, folder)

\* Mutant of GetAllocated: one set of claimed names for all folders.
GetAllocatedShared(alloc, folder) ==
    UNION {alloc[f] : f \in DOMAIN alloc}

GetAllocated(alloc, folder) ==
    IF folder \in DOMAIN alloc THEN alloc[folder] ELSE {}

\* Mutant of PutFolder: the returned name is never recorded.
PutFolderDropsName(f, folder, names, added) ==
    [x \in DOMAIN f \cup {folder} |-> IF x = folder THEN names ELSE f[x]]

\* f extended or overwritten at folder.
PutFolder(f, folder, names, added) ==
    [x \in DOMAIN f \cup {folder} |->
        IF x = folder THEN names \cup added ELSE f[x]]

\* One call filename_gen.generate(dest_folder, base_filename): the state of
\* the generator after it, with the history extended.
GenerateCall(dest_folder, base_filename) ==
    LET existing == GetExisting(existing_cache, fs_dirs, fs_files, dest_folder)
        alloc    == GetAllocated(allocated, dest_folder)
        r        == Generate(existing, alloc, base_filename)
    IN  /\ existing_cache' = PutFolder(existing_cache, dest_folder, existing, {})
        /\ allocated' = PutFolder(allocated, dest_folder, alloc, {r.result})
        /\ log_errors' = log_errors + (IF r.error THEN 1 ELSE 0)
        /\ gen_log' = Append(gen_log,
                             [folder |-> dest_folder, base |-> base_filename,
                              result |-> r.result, error |-> r.error,
                              pre_existing |-> existing,
                              pre_allocated |-> alloc])
        /\ first_disk' =
              IF dest_folder \in DOMAIN first_disk THEN first_disk
              ELSE [x \in DOMAIN first_disk \cup {dest_folder} |->
                      IF x = dest_folder
                      THEN {Name(p) : p \in {q \in fs_files :
                                               Parent(q) = dest_folder}}
                      ELSE first_disk[x]]

(***************************************************************************)
(* main() and process_files(): the state of one run.                       *)
(***************************************************************************)
VARIABLES
    args,             \* input_folder, output_folder, raw_subfolder, dry_run,
                      \* workers: the parsed command line
    env,              \* what the run finds: exiftool_ok, exif (the dates
                      \* get_exif_dates returns), mtime (per file, or NoDate)
    pc,               \* where the main thread is
    installed,        \* InterruptHandler installed for SIGINT (_entered)
    interrupted,      \* interrupt_handler.interrupted
    processed_count,  \* interrupt_handler.processed_count
    files,            \* find_files() result
    plan,             \* plan_moves() result: file_infos, date_folders,
                      \* fallback_count, skipped_count
    move_tasks,       \* (source, dest_path, is_duplicate) per planned move
    futures,          \* state of each submitted future, in submission order
    results,          \* MoveResult of each finished future
    yielded,          \* futures as_completed() has handed to the loop
    success_count,
    error_count,
    completed,
    cancel_i,         \* position of `for f in future_to_task: f.cancel()`
    pf_return,        \* what process_files returned
    exit_status,      \* what main returned
    fs0,              \* history: the filesystem when main started
    late_signal,      \* history: a SIGINT came after the test of line 720
    observed          \* history: whether the flag was set when the pool
                      \* was created; whether the loop saw the flag, or the
                      \* except clause ran, and the futures' states then

pipeVars ==
    <<args, env, pc, installed, interrupted, processed_count, files, plan,
      move_tasks, futures, results, yielded, success_count, error_count,
      completed, cancel_i, pf_return, exit_status, fs0, late_signal, observed>>

\* A function of the program called on its own: the call and what it returned;
\* for get_exif_dates also the position of its loop.
VARIABLES
    call,             \* the function called and its arguments
    ret,              \* done, and the value returned
    batch_i,          \* get_exif_dates: i of `for i in range(0, len(files), ...)`
    exif_dates,       \* get_exif_dates: file_dates, the dict being filled
    tool_log          \* history: the batch and the outcome of each invocation

callVars == <<call, ret, batch_i, exif_dates, tool_log>>

vars == <<fsVars, genVars, pipeVars, callVars>>

\* No function is being called on its own.
CallIdle ==
    /\ call = [fn |-> "none"]
    /\ ret = [done |-> FALSE, value |-> <<>>]
    /\ batch_i = 0
    /\ exif_dates = <<>>
    /\ tool_log = <<>>

NoDate == <<>>        \* None (or ""): `if not datetime_str`
NoPath == <<>>        \* dest_path=None
NotYet == <<>>        \* nothing returned or observed yet

Prefixes(p) == {SubSeq(p, 1, k) : k \in 1..Len(p)}

\* a is b or an ancestor of b: b.relative_to(a) does not raise.
IsRelativeTo(b, a) == Len(a) <= Len(b) /\ SubSeq(b, 1, Len(a)) = a

\* validate_paths(), lines 408-426, on resolved paths.
ValidatePathsRejectsEqual(input_folder, output_folder) ==
    ~IsRelativeTo(output_folder, input_folder)

ValidatePathsAcceptsNested(input_folder, output_folder) == TRUE

ValidatePaths(input_folder, output_folder) ==
    IF output_folder = input_folder THEN TRUE
    ELSE ~IsRelativeTo(output_folder, input_folder)

\* find_files(), lines 243-261: the regular files of input_folder with a
\* supported extension, in any order a stable sort by casefolded name can
\* leave them in (scandir's order is the platform's).
IsSupported(name) == Lower(SplitExt(name)) \in ALL_EXTENSIONS

SortedByCasefold(seq) ==
    \A i \in 1..Len(seq) : \A j \in (i + 1)..Len(seq) :
        ~StrLess(Lower(seq[j][Len(seq[j])]), Lower(seq[i][Len(seq[i])]))

FindFiles(dirs, all_files, input_folder) ==
    LET found == {input_folder \o <<n>> :
                     n \in {m \in ScanDirFiles(dirs, all_files, input_folder) :
                               IsSupported(m)}}
    IN  {seq \in [1..Cardinality(found) -> found] :
            /\ \A p \in found : \E i \in DOMAIN seq : seq[i] = p
            /\ SortedByCasefold(seq)}

\* Mutant of GetFileModDate: a file stat() fails on is dated at the epoch.
GetFileModDateEpoch(mtime, file) ==
    IF Name(file) \in DOMAIN mtime THEN mtime[Name(file)]
    ELSE <<"1", "9", "7", "0", "_", "0", "1", "_", "0", "1", "_",
           "0", "0", "0", "0", "0", "0">>

\* get_file_mod_date(file): the formatted mtime, or None on OSError.
GetFileModDate(mtime, file) ==
    IF Name(file) \in DOMAIN mtime THEN mtime[Name(file)] ELSE NoDate

\* Mutant of PlanOne: the fallback is counted before it is known to have
\* given a date.
PlanOneCountsFallbackFirst(acc, file, file_dates, mtime, output_folder, move_raw_to_orig) ==
    LET looked == IF Name(file) \in DOMAIN file_dates
                  THEN file_dates[Name(file)] ELSE NoDate
        fallback == GetFileModDate(mtime, file)
        datetime_str == IF looked # NoDate THEN looked ELSE fallback
        date_folder == SubSeq(datetime_str, 1, 10)
        date_folder_path == output_folder \o <<date_folder>>
        ext_lower == Lower(PathSuffix(Name(file)))
        dest_folder ==
            IF ext_lower \in JPEG_EXTENSIONS
            THEN date_folder_path \o <<<<"!", "o", "r", "i", "g">>>>
            ELSE IF move_raw_to_orig
            THEN date_folder_path \o <<<<"!", "o", "r", "i", "g">>>>
            ELSE date_folder_path
        base_filename == datetime_str \o <<"_">> \o PathStem(Name(file))
                            \o PathSuffix(Name(file))
    IN  IF datetime_str = NoDate
        THEN [acc EXCEPT !.skipped_count = @ + 1, !.fallback_count = @ + 1]
        ELSE [file_infos |->
                  Append(acc.file_infos,
                         [path |-> file, datetime_str |-> datetime_str,
                          new_filename |-> base_filename,
                          dest_folder |-> dest_folder]),
              date_folders |-> acc.date_folders \cup {date_folder},
              fallback_count |->
                  acc.fallback_count + (IF looked = NoDate THEN 1 ELSE 0),
              skipped_count |-> acc.skipped_count]

\* The body of plan_moves' loop for one file (lines 453-490) on the
\* accumulated result.
PlanOne(acc, file, file_dates, mtime, output_folder, move_raw_to_orig) ==
    LET looked == IF Name(file) \in DOMAIN file_dates
                  THEN file_dates[Name(file)] ELSE NoDate
        fallback == GetFileModDate(mtime, file)
        datetime_str == IF looked # NoDate THEN looked ELSE fallback
        date_folder == SubSeq(datetime_str, 1, 10)
        date_folder_path == output_folder \o <<date_folder>>
        ext_lower == Lower(PathSuffix(Name(file)))
        dest_folder ==
            IF ext_lower \in JPEG_EXTENSIONS
            THEN date_folder_path \o <<<<"!", "o", "r", "i", "g">>>>
            ELSE IF move_raw_to_orig
            THEN date_folder_path \o <<<<"!", "o", "r", "i", "g">>>>
            ELSE date_folder_path
        base_filename == datetime_str \o <<"_">> \o PathStem(Name(file))
                            \o PathSuffix(Name(file))
    IN  IF datetime_str = NoDate
        THEN [acc EXCEPT !.skipped_count = @ + 1]
        ELSE [file_infos |->
                  Append(acc.file_infos,
                         [path |-> file, datetime_str |-> datetime_str,
                          new_filename |-> base_filename,
                          dest_folder |-> dest_folder]),
              date_folders |-> acc.date_folders \cup {date_folder},
              fallback_count |->
                  acc.fallback_count + (IF looked = NoDate THEN 1 ELSE 0),
              skipped_count |-> acc.skipped_count]

EmptyPlan ==
    [file_infos |-> <<>>, date_folders |-> {}, fallback_count |-> 0,
     skipped_count |-> 0]

\* plan_moves(), lines 447-492.
RECURSIVE PlanMoves(_, _, _, _, _)
PlanMoves(fl, file_dates, mtime, output_folder, move_raw_to_orig) ==
    IF fl = <<>> THEN EmptyPlan
    ELSE PlanOne(PlanMoves(SubSeq(fl, 1, Len(fl) - 1), file_dates, mtime,
                           output_folder, move_raw_to_orig),
                 fl[Len(fl)], file_dates, mtime, output_folder,
                 move_raw_to_orig)

\* ensure_folders_exist(), lines 351-355: mkdir(parents=True, exist_ok=True)
\* of each date folder, then its two subfolders.
EnsureFoldersSkipped(dirs, output_folder, date_folders) == dirs

EnsureFoldersExist(dirs, output_folder, date_folders) ==
    dirs \cup UNION {Prefixes(output_folder \o <<d>>) : d \in date_folders}
         \cup {output_folder \o <<d, <<"!", "j", "p", "g">>>> : d \in date_folders}
         \cup {output_folder \o <<d, <<"!", "o", "r", "i", "g">>>> : d \in date_folders}


\* move_single_file(), lines 379-398, given what the two system calls do:
\* "rename" (os.rename succeeds), "copy" (os.rename raises, shutil.move
\* copies and deletes), "partial" (os.rename raises, shutil.move copies and
\* raises on deleting the source), "fail" (both raise and nothing changed).
\* Without the source file or the destination folder both raise.
MoveOutcomes == {"rename", "copy", "partial", "fail"}

CanMove(dirs, all_files, source, dest_path) ==
    source \in all_files /\ Parent(dest_path) \in dirs

\* Mutant of MoveResultOf: a copy whose source could not be deleted is
\* reported as a success.
MoveResultOfCopyIsEnough(task, outcome) ==
    IF outcome = "fail"
    THEN [success |-> FALSE, source_name |-> Name(task.source),
          dest_path |-> NoPath, error |-> TRUE, is_duplicate |-> FALSE,
          how |-> outcome]
    ELSE [success |-> TRUE, source_name |-> Name(task.source),
          dest_path |-> task.dest_path, error |-> FALSE,
          is_duplicate |-> task.is_duplicate, how |-> outcome]

\* Mutant of MoveResultOf: the OSError of a failed move is swallowed.
MoveResultOfNeverFails(task, outcome) ==
    [success |-> TRUE, source_name |-> Name(task.source),
     dest_path |-> task.dest_path, error |-> FALSE,
     is_duplicate |-> task.is_duplicate, how |-> outcome]

\* The MoveResult returned; `how` is history, the outcome it came from.
MoveResultOf(task, outcome) ==
    IF outcome \in {"fail", "partial"}
    THEN [success |-> FALSE, source_name |-> Name(task.source),
          dest_path |-> NoPath, error |-> TRUE, is_duplicate |-> FALSE,
          how |-> outcome]
    ELSE [success |-> TRUE, source_name |-> Name(task.source),
          dest_path |-> task.dest_path, error |-> FALSE,
          is_duplicate |-> task.is_duplicate, how |-> outcome]

MoveFilesKeepsSource(all_files, task, outcome) ==
    IF outcome = "fail" THEN all_files
    ELSE all_files \cup {task.dest_path}

MoveFiles(all_files, task, outcome) ==
    IF outcome = "fail" THEN all_files
    ELSE IF outcome = "partial" THEN all_files \cup {task.dest_path}
    ELSE (all_files \ {task.source}) \cup {task.dest_path}

(***************************************************************************)
(* What a run starts from.                                                 *)
(***************************************************************************)
\* The worker counts tried (the code allows 1..MAX_WORKERS = 64).
MaxPoolSize == 2

T1 == <<"2", "0", "2", "4", "_", "0", "1", "_", "1", "5", "_",
        "1", "4", "3", "0", "5", "2">>
T2 == <<"2", "0", "2", "4", "_", "0", "1", "_", "1", "6", "_",
        "0", "9", "0", "0", "0", "0">>
D1 == SubSeq(T1, 1, 10)
ORIG == <<"!", "o", "r", "i", "g">>
JPG == <<".", "j", "p", "g">>

A_JPG == <<"a">> \o JPG
UP_A_JPG == <<"A", ".", "J", "P", "G">>
B_CR3 == <<"b", ".", "c", "r", "3">>
C_JPG == <<"c">> \o JPG
D_JPG == <<"d">> \o JPG
N_TXT == <<"n", ".", "t", "x", "t">>
A_N(k) == Candidate(<<"a">>, k, JPG)

\* T1_a.jpg and its candidates _2 .. _k in the !orig folder of T1's date.
RECURSIVE OnDisk(_)
OnDisk(k) ==
    IF k <= 0 THEN {}
    ELSE IF k = 1 THEN {<<D1, ORIG, T1 \o <<"_">> \o A_JPG>>}
    ELSE OnDisk(k - 1)
            \cup {<<D1, ORIG, Candidate(T1 \o <<"_", "a">>, k, JPG)>>}

\* names: the regular files of the input folder; exif: what get_exif_dates
\* returns; mtime: the formatted mtime of the files stat() succeeds on;
\* dest: files already under the output folder.
Scenarios ==
    { [names |-> {A_JPG, B_CR3, C_JPG, N_TXT},
       exif  |-> (A_JPG :> T1) @@ (B_CR3 :> T1),
       mtime |-> (A_JPG :> T2) @@ (B_CR3 :> T2) @@ (C_JPG :> T2),
       dest  |-> {}],
      [names |-> {A_JPG, A_N(2)},
       exif  |-> (A_JPG :> T1) @@ (A_N(2) :> T1),
       mtime |-> (A_JPG :> T2) @@ (A_N(2) :> T2),
       dest  |-> OnDisk(1)],
      [names |-> {A_JPG, A_N(Ceiling + 1)},
       exif  |-> (A_JPG :> T1) @@ (A_N(Ceiling + 1) :> T1),
       mtime |-> (A_JPG :> T2),
       dest  |-> OnDisk(Ceiling)],
      [names |-> {A_JPG, A_N(Ceiling + 1)},
       exif  |-> (A_JPG :> T1) @@ (A_N(Ceiling + 1) :> T1),
       mtime |-> (A_JPG :> T2),
       dest  |-> OnDisk(Ceiling + 1)],
      [names |-> {A_JPG, UP_A_JPG, D_JPG},
       exif  |-> (A_JPG :> T1) @@ (UP_A_JPG :> T1),
       mtime |-> (A_JPG :> T2) @@ (UP_A_JPG :> T2),
       dest  |-> {}],
      [names |-> {N_TXT},
       exif  |-> <<>>,
       mtime |-> (N_TXT :> T2),
       dest  |-> {}],
      [names |-> {D_JPG},
       exif  |-> <<>>,
       mtime |-> <<>>,
       dest  |-> {}] }

IN_DIR == <<<<"i", "n">>>>
OUT_DIR == <<<<"o", "u", "t">>>>
NEW_DIR == <<<<"n", "e", "w">>>>
SUB_DIR == <<<<"i", "n">>, <<"s", "u", "b">>>>

\* Command lines main() accepts ...
GoodPaths ==
    { [input_folder |-> IN_DIR, output_folder |-> IN_DIR, dirs |-> {IN_DIR}],
      [input_folder |-> IN_DIR, output_folder |-> OUT_DIR,
       dirs |-> {IN_DIR, OUT_DIR}],
      [input_folder |-> IN_DIR, output_folder |-> NEW_DIR, dirs |-> {IN_DIR}] }

\* ... and those it refuses: no input folder, output inside input.
BadPaths ==
    { [input_folder |-> IN_DIR, output_folder |-> OUT_DIR, dirs |-> {}],
      [input_folder |-> IN_DIR, output_folder |-> SUB_DIR, dirs |-> {IN_DIR}],
      [input_folder |-> IN_DIR, output_folder |-> SUB_DIR,
       dirs |-> {IN_DIR, SUB_DIR}] }

NoReturn == [done |-> FALSE, success |-> 0, errors |-> 0]

RunInit(sc, paths, dry, raw, w, tool) ==
    LET out_there == paths.output_folder \in paths.dirs
        dest == IF out_there
                THEN {paths.output_folder \o d : d \in sc.dest} ELSE {}
    IN  /\ args = [input_folder |-> paths.input_folder,
                   output_folder |-> paths.output_folder,
                   raw_subfolder |-> raw, dry_run |-> dry, workers |-> w]
        /\ env = [exiftool_ok |-> tool, exif |-> sc.exif, mtime |-> sc.mtime]
        /\ fs_dirs = paths.dirs \cup UNION {Prefixes(Parent(p)) : p \in dest}
        /\ fs_files =
              dest \cup (IF paths.input_folder \in paths.dirs
                         THEN {paths.input_folder \o <<n>> : n \in sc.names}
                         ELSE {})
        /\ fs0 = [dirs |-> fs_dirs, files |-> fs_files]

\* The state before main() has done anything.
PipeStart ==
    /\ pc = "main"
    /\ installed = FALSE
    /\ interrupted = FALSE
    /\ processed_count = 0
    /\ files = <<>>
    /\ plan = EmptyPlan
    /\ move_tasks = <<>>
    /\ futures = <<>>
    /\ results = <<>>
    /\ yielded = {}
    /\ success_count = 0
    /\ error_count = 0
    /\ completed = 0
    /\ cancel_i = 0
    /\ pf_return = NoReturn
    /\ exit_status = -1
    /\ late_signal = FALSE
    /\ observed = [at_submit |-> FALSE, seen |-> FALSE, caught |-> FALSE,
                   states |-> <<>>]

GenStart ==
    /\ existing_cache = <<>>
    /\ allocated = <<>>
    /\ log_errors = 0
    /\ gen_log = <<>>
    /\ first_disk = <<>>

Init ==
    /\ \/ \E sc \in Scenarios, paths \in GoodPaths, dry \in BOOLEAN,
            raw \in BOOLEAN, w \in 1..MaxPoolSize :
              RunInit(sc, paths, dry, raw, w, TRUE)
       \/ \E sc \in Scenarios, paths \in BadPaths, dry \in BOOLEAN :
              RunInit(sc, paths, dry, FALSE, 1, TRUE)
       \/ \E sc \in Scenarios, paths \in GoodPaths, dry \in BOOLEAN :
              RunInit(sc, paths, dry, FALSE, 1, FALSE)
    /\ PipeStart
    /\ GenStart
    /\ CallIdle

(***************************************************************************)
(* main(), lines 694-725                                                   *)
(***************************************************************************)
MainReturns(status) ==
    /\ pc' = "exit"
    /\ exit_status' = status
    /\ installed' = FALSE

\* `if not input_folder.is_dir(): return 1`
MainInputMissing ==
    /\ pc = "main"
    /\ args.input_folder \notin fs_dirs
    /\ MainReturns(1)
    /\ UNCHANGED <<fsVars, genVars, callVars, args, env, interrupted, processed_count,
                   files, plan, move_tasks, futures, results, yielded,
                   success_count, error_count, completed, cancel_i,
                   pf_return, fs0, late_signal, observed>>

\* `if not check_exiftool(): return 1`
MainNoExiftool ==
    /\ pc = "main"
    /\ args.input_folder \in fs_dirs
    /\ ~env.exiftool_ok
    /\ MainReturns(1)
    /\ UNCHANGED <<fsVars, genVars, callVars, args, env, interrupted, processed_count,
                   files, plan, move_tasks, futures, results, yielded,
                   success_count, error_count, completed, cancel_i,
                   pf_return, fs0, late_signal, observed>>

\* `if not validate_paths(input_folder, output_folder): return 1`
MainBadPaths ==
    /\ pc = "main"
    /\ args.input_folder \in fs_dirs
    /\ env.exiftool_ok
    /\ ~ValidatePaths(args.input_folder, args.output_folder)
    /\ MainReturns(1)
    /\ UNCHANGED <<fsVars, genVars, callVars, args, env, interrupted, processed_count,
                   files, plan, move_tasks, futures, results, yielded,
                   success_count, error_count, completed, cancel_i,
                   pf_return, fs0, late_signal, observed>>

\* output_folder.mkdir(parents=True, exist_ok=True) at line 708.
MkdirOutputUnlessDryRun(dirs, output_folder) ==
    IF args.dry_run THEN dirs ELSE dirs \cup Prefixes(output_folder)

MkdirOutput(dirs, output_folder) == dirs \cup Prefixes(output_folder)

\* The preconditions hold: line 708, then InterruptHandler.__enter__.
MainSetup ==
    /\ pc = "main"
    /\ args.input_folder \in fs_dirs
    /\ env.exiftool_ok
    /\ ValidatePaths(args.input_folder, args.output_folder)
    /\ fs_dirs' = MkdirOutput(fs_dirs, args.output_folder)
    /\ installed' = TRUE
    /\ pc' = "find_files"
    /\ UNCHANGED <<fs_files, genVars, callVars, args, env, interrupted, processed_count,
                   files, plan, move_tasks, futures, results, yielded,
                   success_count, error_count, completed, cancel_i,
                   pf_return, exit_status, fs0, late_signal, observed>>

\* InterruptHandler._handler, lines 121-124: SIGINT while it is installed.
Signal ==
    /\ installed
    /\ pc # "exit"
    /\ interrupted' = TRUE
    /\ late_signal' = (late_signal \/ pc = "main_done")
    /\ UNCHANGED <<fsVars, genVars, callVars, args, env, pc, installed, processed_count,
                   files, plan, move_tasks, futures, results, yielded,
                   success_count, error_count, completed, cancel_i,
                   pf_return, exit_status, fs0, observed>>

\* The test of line 720.
FlagNeverSeen(flag) == FALSE

FlagSeen(flag) == flag

\* `if interrupt_handler.interrupted: return 130`, through __exit__.
MainInterrupted ==
    /\ pc = "main_check"
    /\ FlagSeen(interrupted)
    /\ MainReturns(130)
    /\ UNCHANGED <<fsVars, genVars, callVars, args, env, interrupted, processed_count,
                   files, plan, move_tasks, futures, results, yielded,
                   success_count, error_count, completed, cancel_i,
                   pf_return, fs0, late_signal, observed>>

\* The flag is clear at line 720: log.info("Done! ...") at line 723.
MainNotInterrupted ==
    /\ pc = "main_check"
    /\ ~FlagSeen(interrupted)
    /\ pc' = "main_done"
    /\ UNCHANGED <<fsVars, genVars, callVars, args, env, installed, interrupted,
                   processed_count, files, plan, move_tasks, futures, results,
                   yielded, success_count, error_count, completed, cancel_i,
                   pf_return, exit_status, fs0, late_signal, observed>>

\* __exit__ and `return 0 if errors == 0 else 1`.
MainDone ==
    /\ pc = "main_done"
    /\ MainReturns(IF pf_return.errors = 0 THEN 0 ELSE 1)
    /\ UNCHANGED <<fsVars, genVars, callVars, args, env, interrupted, processed_count,
                   files, plan, move_tasks, futures, results, yielded,
                   success_count, error_count, completed, cancel_i,
                   pf_return, fs0, late_signal, observed>>

(***************************************************************************)
(* process_files(), lines 511-626                                          *)
(***************************************************************************)
PfReturns(success, errors) ==
    /\ pf_return' = [done |-> TRUE, success |-> success, errors |-> errors]
    /\ pc' = "main_check"

\* Lines 511-515: find_files(), and `return 0, 0` when it finds nothing.
PfFindFiles ==
    /\ pc = "find_files"
    /\ \E found \in FindFiles(fs_dirs, fs_files, args.input_folder) :
          /\ files' = found
          /\ IF found = <<>>
             THEN PfReturns(0, 0)
             ELSE pc' = "plan" /\ UNCHANGED pf_return
    /\ UNCHANGED <<fsVars, genVars, callVars, args, env, installed, interrupted,
                   processed_count, plan, move_tasks, futures, results,
                   yielded, success_count, error_count, completed, cancel_i,
                   exit_status, fs0, late_signal, observed>>

\* Lines 523-545: get_exif_dates(), plan_moves(), `return 0, 0` when nothing
\* is planned, and ensure_folders_exist() unless this is a dry run.
PfPlan ==
    /\ pc = "plan"
    /\ \E planned \in {PlanMoves(files, env.exif, env.mtime,
                                 args.output_folder, args.raw_subfolder)} :
           /\ plan' = planned
           /\ IF planned.file_infos = <<>>
              THEN PfReturns(0, 0) /\ UNCHANGED fs_dirs
              ELSE /\ pc' = "generate"
                   /\ UNCHANGED pf_return
                   /\ fs_dirs' =
                         IF args.dry_run THEN fs_dirs
                         ELSE EnsureFoldersExist(fs_dirs, args.output_folder,
                                                 planned.date_folders)
    /\ UNCHANGED <<fs_files, genVars, callVars, args, env, installed, interrupted,
                   processed_count, files, move_tasks, futures, results,
                   yielded, success_count, error_count, completed, cancel_i,
                   exit_status, fs0, late_signal, observed>>

\* One turn of the loop of lines 554-558.
PfGenerate ==
    /\ pc = "generate"
    /\ Len(move_tasks) < Len(plan.file_infos)
    /\ LET info == plan.file_infos[Len(move_tasks) + 1]
       IN  /\ GenerateCall(info.dest_folder, info.new_filename)
           /\ LET unique_filename == gen_log'[Len(gen_log')].result
              IN  move_tasks' =
                      Append(move_tasks,
                             [source |-> info.path,
                              dest_path |-> info.dest_folder \o <<unique_filename>>,
                              is_duplicate |-> unique_filename # info.new_filename])
    /\ UNCHANGED <<fsVars, callVars, args, env, pc, installed, interrupted,
                   processed_count, files, plan, futures, results, yielded,
                   success_count, error_count, completed, cancel_i,
                   pf_return, exit_status, fs0, late_signal, observed>>

\* Lines 563-567: the preview, and `return total, 0`.
PfDryRun ==
    /\ pc = "generate"
    /\ Len(move_tasks) = Len(plan.file_infos)
    /\ args.dry_run
    /\ PfReturns(Len(move_tasks), 0)
    /\ UNCHANGED <<fsVars, genVars, callVars, args, env, installed, interrupted,
                   processed_count, files, plan, move_tasks, futures, results,
                   yielded, success_count, error_count, completed, cancel_i,
                   exit_status, fs0, late_signal, observed>>

\* Mutant of PfSubmit: the tasks made so far are submitted while names are
\* still to be generated.
PfSubmitEarly ==
    /\ pc = "generate"
    /\ Len(move_tasks) >= 1
    /\ ~args.dry_run
    /\ futures' = [i \in 1..Len(move_tasks) |-> "PENDING"]
    /\ pc' = "as_completed"
    /\ observed' = [observed EXCEPT !.at_submit = interrupted]
    /\ UNCHANGED <<fsVars, genVars, callVars, args, env, installed,
                   interrupted, processed_count, files, plan, move_tasks,
                   results, yielded, success_count, error_count, completed,
                   cancel_i, pf_return, exit_status, fs0, late_signal>>

\* Mutant of PfSubmit: the flag is tested before the pool is created, and
\* nothing is run when it is set.
PfSubmitUnlessInterrupted ==
    /\ pc = "generate"
    /\ Len(move_tasks) = Len(plan.file_infos)
    /\ ~args.dry_run
    /\ futures' = [i \in 1..Len(move_tasks) |->
                      IF interrupted THEN "CANCELLED" ELSE "PENDING"]
    /\ pc' = IF interrupted THEN "shutdown" ELSE "as_completed"
    /\ observed' = [observed EXCEPT !.at_submit = interrupted]
    /\ UNCHANGED <<fsVars, genVars, callVars, args, env, installed, interrupted,
                   processed_count, files, plan, move_tasks, results, yielded,
                   success_count, error_count, completed, cancel_i,
                   pf_return, exit_status, fs0, late_signal>>

\* Lines 585-589: the pool is created and every task submitted.
PfSubmit ==
    /\ pc = "generate"
    /\ Len(move_tasks) = Len(plan.file_infos)
    /\ ~args.dry_run
    /\ futures' = [i \in 1..Len(move_tasks) |-> "PENDING"]
    /\ pc' = "as_completed"
    /\ observed' = [observed EXCEPT !.at_submit = interrupted]
    /\ UNCHANGED <<fsVars, genVars, callVars, args, env, installed, interrupted,
                   processed_count, files, plan, move_tasks, results, yielded,
                   success_count, error_count, completed, cancel_i,
                   pf_return, exit_status, fs0, late_signal>>

\* Mutant of PoolAlive: the threads stop when the coordinator leaves its
\* loop, with moves still running.
PoolAliveUntilShutdown == pc \in {"as_completed", "cancel"}

\* The worker threads live from the pool's creation until shutdown(wait=True)
\* has joined them.
PoolAlive == pc \in {"as_completed", "cancel", "shutdown"}

\* Mutant of Tasks: the last future is never run nor waited for.
TasksButLast == 1..(Len(futures) - 1)

Tasks == 1..Len(futures)

Running == {t \in Tasks : futures[t] = "RUNNING"}

\* A worker thread takes the next work item off the queue and marks its
\* future running (set_running_or_notify_cancel): at most args.workers
\* threads, items leave the queue in submission order.
WorkerStart(t) ==
    /\ PoolAlive
    /\ futures[t] = "PENDING"
    /\ Cardinality({u \in 1..(t - 1) : futures[u] = "PENDING"})
          + Cardinality(Running) < args.workers
    /\ futures' = [futures EXCEPT ![t] = "RUNNING"]
    /\ UNCHANGED <<fsVars, genVars, callVars, args, env, pc, installed, interrupted,
                   processed_count, files, plan, move_tasks, results, yielded,
                   success_count, error_count, completed, cancel_i,
                   pf_return, exit_status, fs0, late_signal, observed>>

\* The worker runs move_single_file and the future gets its result.
WorkerMove(t) ==
    /\ PoolAlive
    /\ futures[t] = "RUNNING"
    /\ \E outcome \in MoveOutcomes :
          /\ outcome # "fail" =>
                CanMove(fs_dirs, fs_files, move_tasks[t].source,
                        move_tasks[t].dest_path)
          /\ fs_files' = MoveFiles(fs_files, move_tasks[t], outcome)
          /\ results' = (t :> MoveResultOf(move_tasks[t], outcome)) @@ results
    /\ futures' = [futures EXCEPT ![t] = "FINISHED"]
    /\ UNCHANGED <<fs_dirs, genVars, callVars, args, env, pc, installed, interrupted,
                   processed_count, files, plan, move_tasks, yielded,
                   success_count, error_count, completed, cancel_i,
                   pf_return, exit_status, fs0, late_signal, observed>>

\* One turn of the loop of lines 592-613 on a finished future as_completed
\* yields: the result is counted, then the flag is tested.
PfConsume(t) ==
    /\ pc = "as_completed"
    /\ futures[t] = "FINISHED"
    /\ t \notin yielded
    /\ yielded' = yielded \cup {t}
    /\ completed' = completed + 1
    /\ IF results[t].success
       THEN /\ success_count' = success_count + 1
            /\ processed_count' = processed_count + 1
            /\ UNCHANGED error_count
       ELSE /\ error_count' = error_count + 1
            /\ UNCHANGED <<success_count, processed_count>>
    /\ IF interrupted
       THEN /\ observed' = [observed EXCEPT !.seen = TRUE, !.states = futures]
            /\ cancel_i' = 1
            /\ pc' = "cancel"
       ELSE /\ UNCHANGED <<observed, cancel_i>>
            /\ pc' = IF yielded' = Tasks THEN "shutdown" ELSE "as_completed"
    /\ UNCHANGED <<fsVars, genVars, callVars, args, env, installed, interrupted, files,
                   plan, move_tasks, futures, results, pf_return,
                   exit_status, fs0, late_signal>>

\* Future.cancel(): only a future that has not started is cancelled.
CancelFutureNoop(state) == state

CancelFuture(state) == IF state = "PENDING" THEN "CANCELLED" ELSE state

\* One turn of `for f in future_to_task: f.cancel()`, then `break`.
PfCancel ==
    /\ pc = "cancel"
    /\ futures' = [futures EXCEPT ![cancel_i] = CancelFuture(@)]
    /\ cancel_i' = cancel_i + 1
    /\ pc' = IF cancel_i = Len(futures) THEN "shutdown" ELSE "cancel"
    /\ UNCHANGED <<fsVars, genVars, callVars, args, env, installed, interrupted,
                   processed_count, files, plan, move_tasks, results, yielded,
                   success_count, error_count, completed, pf_return,
                   exit_status, fs0, late_signal, observed>>

\* The executor's __exit__ (shutdown(wait=True)) returns once no work item
\* is queued or running; then lines 621-626.
PfShutdown ==
    /\ pc = "shutdown"
    /\ \A t \in Tasks : futures[t] \in {"FINISHED", "CANCELLED"}
    /\ PfReturns(success_count, error_count)
    /\ UNCHANGED <<fsVars, genVars, callVars, args, env, installed, interrupted,
                   processed_count, files, plan, move_tasks, futures, results,
                   yielded, success_count, error_count, completed, cancel_i,
                   exit_status, fs0, late_signal, observed>>

Next ==
    \/ MainInputMissing
    \/ MainNoExiftool
    \/ MainBadPaths
    \/ MainSetup
    \/ Signal
    \/ PfFindFiles
    \/ PfPlan
    \/ PfGenerate
    \/ PfDryRun
    \/ PfSubmit
    \/ \E t \in Tasks : WorkerStart(t)
    \/ \E t \in Tasks : WorkerMove(t)
    \/ \E t \in Tasks : PfConsume(t)
    \/ PfCancel
    \/ PfShutdown
    \/ MainInterrupted
    \/ MainNotInterrupted
    \/ MainDone

Spec == Init /\ [][Next]_vars

(***************************************************************************)
(* The allocator on its own: one generator, any sequence of generate()     *)
(* calls over two folders, while other programs may add files.             *)
(***************************************************************************)
NameA   == <<"a", ".", "j">>            \* "a.j"
NameA2  == <<"a", "_", "2", ".", "j">>  \* "a_2.j": a candidate of "a.j"
NameHid == <<".", "h">>                 \* ".h": a leading dot only
FolderX == <<<<"x">>>>
FolderY == <<<<"y">>>>

\* "a.j" and its candidates _2 .. _k.
RECURSIVE Taken(_)
Taken(k) ==
    IF k <= 0 THEN {}
    ELSE IF k = 1 THEN {NameA}
    ELSE Taken(k - 1) \cup {Candidate(<<"a">>, k, <<".", "j">>)}

\* What folder x may hold when the generator is created.
GenDisks ==
    {Taken(k) : k \in 0..(Ceiling + 1)}
        \cup {Taken(Ceiling) \cup {NameHid}}
        \cup {{NameA, Candidate(<<"a">>, 3, <<".", "j">>)}}

GenCalls ==
    {<<FolderX, NameA>>, <<FolderX, NameA2>>, <<FolderX, NameHid>>,
     <<FolderY, NameA>>}

\* No run of main() is in progress.
PipeIdle ==
    /\ args = [input_folder |-> IN_DIR, output_folder |-> IN_DIR,
               raw_subfolder |-> FALSE, dry_run |-> FALSE, workers |-> 1]
    /\ env = [exiftool_ok |-> TRUE, exif |-> <<>>, mtime |-> <<>>]
    /\ fs0 = [dirs |-> fs_dirs, files |-> fs_files]
    /\ PipeStart

GenInit ==
    /\ fs_dirs \in {{FolderX}, {FolderX, FolderY}}
    /\ \E d \in GenDisks : fs_files = {FolderX \o <<n>> : n \in d}
    /\ GenStart
    /\ PipeIdle
    /\ CallIdle

GenGenerate ==
    /\ Len(gen_log) < MaxCalls
    /\ \E c \in GenCalls : GenerateCall(c[1], c[2])
    /\ UNCHANGED <<fsVars, pipeVars, callVars>>

\* Another program creates "a_2.j" in folder x.
GenExternalCreate ==
    /\ FolderX \o <<NameA2>> \notin fs_files
    /\ fs_files' = fs_files \cup {FolderX \o <<NameA2>>}
    /\ UNCHANGED <<fs_dirs, genVars, pipeVars, callVars>>

GenNext == GenGenerate \/ GenExternalCreate

SpecGen == GenInit /\ [][GenNext]_vars


(***************************************************************************)
(* Properties of the allocator (checked under SpecGen).                    *)
(***************************************************************************)
\* name with _n put before its extension, stated by position: the extension
\* starts at the last "." unless that is the first character or there is none.
CounterBeforeExtension(name, n) ==
    LET isLastDot(p) == /\ name[p] = "."
                        /\ \A q \in (p + 1)..Len(name) : name[q] # "."
        hasExt == \E p \in 2..Len(name) : isLastDot(p)
        cut == IF hasExt THEN CHOOSE p \in 2..Len(name) : isLastDot(p)
               ELSE Len(name) + 1
    IN  [i \in 1..(cut - 1) |-> name[i]] \o <<"_">> \o IntToStr(n)
            \o [i \in 1..(Len(name) - cut + 1) |-> name[cut + i - 1]]

CallTaken(c) == c.pre_existing \cup c.pre_allocated

\* Every probe 2..Ceiling of the call is taken, and so is the name itself.
CallExhausted(c) ==
    /\ c.base \in CallTaken(c)
    /\ \A n \in 2..Ceiling : CounterBeforeExtension(c.base, n) \in CallTaken(c)

LogIndex == 1..Len(gen_log)

\* C1 (as amended): every name returned by a generate() call that did not
\* exhaust the ceiling is absent from the files that were in its folder at the
\* folder's first query and differs from every name returned earlier for that
\* folder.
C1_ReturnedNamesUnique ==
    \A i \in LogIndex :
        ~CallExhausted(gen_log[i]) =>
            /\ gen_log[i].result \notin first_disk[gen_log[i].folder]
            /\ \A j \in 1..(i - 1) :
                  gen_log[j].folder = gen_log[i].folder
                      => gen_log[j].result # gen_log[i].result

\* C1 as stated: the same of every call, the exhausted ones included.
C1_Original ==
    \A i \in LogIndex :
        /\ gen_log[i].result \notin first_disk[gen_log[i].folder]
        /\ \A j \in 1..(i - 1) :
              gen_log[j].folder = gen_log[i].folder
                  => gen_log[j].result # gen_log[i].result

\* Three calls for one folder that held files, none exhausted, one of them
\* renamed.
C1_Witness ==
    /\ Len(gen_log) >= 3
    /\ \A i \in LogIndex :
          /\ gen_log[i].folder = FolderX
          /\ ~CallExhausted(gen_log[i])
    /\ first_disk[FolderX] # {}
    /\ \E i \in LogIndex : gen_log[i].result # gen_log[i].base
    /\ \E i \in LogIndex : gen_log[i].result = gen_log[i].base

\* The log is N calls with one base name for one folder that was empty at its
\* first query.
SameNameCalls ==
    /\ Len(gen_log) >= 1
    /\ \A i \in LogIndex :
          /\ gen_log[i].folder = gen_log[1].folder
          /\ gen_log[i].base = gen_log[1].base
    /\ first_disk[gen_log[1].folder] = {}

NthOfSameName(i) ==
    gen_log[i].result =
        IF i = 1 THEN gen_log[1].base
        ELSE CounterBeforeExtension(gen_log[1].base, i)

\* C8 (as amended): N <= Ceiling + 1 calls with the same base name for a
\* folder with no existing files return name, name_2, ..., name_N in order,
\* the counter before the extension.
C8_SameNameSequence ==
    (SameNameCalls /\ Len(gen_log) <= Ceiling + 1)
        => \A i \in LogIndex : NthOfSameName(i)

\* C8 as stated: for every N.
C8_Original ==
    SameNameCalls => \A i \in LogIndex : NthOfSameName(i)

\* Ceiling + 1 calls of ".h" (no extension to split off) on an empty folder.
C8_Witness ==
    /\ SameNameCalls
    /\ Len(gen_log) = Ceiling + 1
    /\ gen_log[1].base = NameHid
    /\ gen_log[Ceiling + 1].result
          = NameHid \o <<"_">> \o IntToStr(Ceiling + 1)

\* The least n in 2..Ceiling whose candidate is free, when there is one.
FirstFree(c) ==
    CHOOSE n \in 2..Ceiling :
        /\ CounterBeforeExtension(c.base, n) \notin CallTaken(c)
        /\ \A m \in 2..(n - 1) :
              CounterBeforeExtension(c.base, m) \in CallTaken(c)

\* C9 (as amended): generate returns the name unchanged exactly when it is in
\* neither set of the folder; otherwise the candidate of the smallest n in
\* 2..Ceiling that is in neither set and, when there is none, the candidate of
\* Ceiling + 1 whether it is free or not; the returned name is added to the
\* allocated set.
C9_GenerateResult ==
    \A i \in LogIndex :
        LET c == gen_log[i]
        IN  /\ (c.result = c.base) <=> (c.base \notin CallTaken(c))
            /\ c.base \in CallTaken(c) =>
                  c.result =
                      IF CallExhausted(c)
                      THEN CounterBeforeExtension(c.base, Ceiling + 1)
                      ELSE CounterBeforeExtension(c.base, FirstFree(c))
            /\ c.result \in allocated[c.folder]
            /\ i = Len(gen_log) =>
                  allocated[c.folder] = c.pre_allocated \cup {c.result}

\* C9 as stated: a renamed result is always the candidate of the smallest
\* n >= 2 that is in neither set.
C9_Original ==
    \A i \in LogIndex :
        LET c == gen_log[i]
        IN  /\ (c.result = c.base) <=> (c.base \notin CallTaken(c))
            /\ c.base \in CallTaken(c) =>
                  \E n \in 2..(Ceiling + 2) :
                      /\ c.result = CounterBeforeExtension(c.base, n)
                      /\ c.result \notin CallTaken(c)
                      /\ \A m \in 2..(n - 1) :
                            CounterBeforeExtension(c.base, m) \in CallTaken(c)
            /\ c.result \in allocated[c.folder]

\* A call that skipped a name on disk and a name allocated before, and a call
\* on a name with a leading dot only that was renamed.
C9_Witness ==
    /\ \E i \in LogIndex :
          /\ gen_log[i].base = NameA
          /\ NameA \in gen_log[i].pre_existing
          /\ NameA2 \in gen_log[i].pre_allocated
          /\ gen_log[i].result = Candidate(<<"a">>, 3, <<".", "j">>)
    /\ \E i \in LogIndex :
          /\ gen_log[i].base = NameHid
          /\ gen_log[i].result = <<".", "h", "_", "2">>

\* C10: a call that finds the name and every candidate 2..Ceiling taken logs
\* one error, returns the candidate of Ceiling + 1 and claims it; no other
\* call logs an error, and the generator still takes calls afterwards.
C10_ExhaustedFallback ==
    /\ \A i \in LogIndex :
          LET c == gen_log[i]
          IN  /\ c.error <=> CallExhausted(c)
              /\ CallExhausted(c) =>
                    /\ c.result = CounterBeforeExtension(c.base, Ceiling + 1)
                    /\ c.result \in allocated[c.folder]
    /\ log_errors = Cardinality({i \in LogIndex : gen_log[i].error})
    /\ Len(gen_log) < MaxCalls => ENABLED GenGenerate

\* An exhausted call followed by a call that returned a free name unchanged.
C10_Witness ==
    \E i \in LogIndex :
        /\ i < Len(gen_log)
        /\ CallExhausted(gen_log[i])
        /\ gen_log[i].error
        /\ gen_log[i + 1].folder = gen_log[i].folder
        /\ gen_log[i + 1].result = gen_log[i + 1].base
        /\ ~gen_log[i + 1].error

(***************************************************************************)
(* Properties of a run of main() (checked under Spec).                     *)
(***************************************************************************)
TaskIndex == 1..Len(move_tasks)

\* C2: no two move tasks of a run have the same destination path, at any
\* point of building the list, so no two moves that run together write to one
\* path; this covers calls that exhaust the ceiling.
C2_DistinctDestinations ==
    /\ \A i \in TaskIndex : \A j \in TaskIndex :
          i # j => move_tasks[i].dest_path # move_tasks[j].dest_path
    /\ \A t \in Running : \A u \in Running :
          t # u => move_tasks[t].dest_path # move_tasks[u].dest_path

\* Two moves running at once in a run one of whose generate() calls exhausted
\* the ceiling and another renamed its file.
C2_Witness ==
    /\ Cardinality(Running) >= 2
    /\ \E i \in LogIndex : gen_log[i].error
    /\ \E i \in LogIndex : ~gen_log[i].error /\ gen_log[i].result # gen_log[i].base

\* C3 (as amended): the flag is tested exactly after each result is counted;
\* once the loop has seen it set, no further result is consumed and cancel()
\* is called on every future in order; a future still pending when its
\* cancel() is called is cancelled and its move never runs; a future that is
\* running stays so until it finishes; process_files returns only when every
\* future is finished or cancelled.
C3_CancelDiscipline ==
    /\ [](/\ observed.seen => pc # "as_completed"
          /\ \A t \in Tasks :
                futures[t] = "CANCELLED" =>
                    /\ t \notin DOMAIN results
                    /\ move_tasks[t].source \in fs_files
                    /\ move_tasks[t].dest_path \notin (fs_files \ fs0.files)
          /\ \A t \in Tasks :
                (observed.seen /\ t < cancel_i) => futures[t] # "PENDING"
          /\ pf_return.done =>
                \A t \in Tasks : futures[t] \in {"FINISHED", "CANCELLED"}
          /\ (pf_return.done /\ observed.seen) => cancel_i = Len(futures) + 1)
    /\ [][/\ (pc = "as_completed" /\ completed' # completed) =>
                 ((pc' = "cancel") <=> interrupted)
          /\ (pc # "cancel" /\ pc' = "cancel") => completed' = completed + 1
          /\ observed.seen =>
                 /\ completed' = completed
                 /\ success_count' = success_count
                 /\ error_count' = error_count
          /\ \A t \in Tasks :
                 /\ futures[t] = "CANCELLED" => futures'[t] = "CANCELLED"
                 /\ futures[t] = "RUNNING" =>
                        futures'[t] \in {"RUNNING", "FINISHED"}]_vars

\* C3 as stated: a task that had not started when the loop saw the flag never
\* starts.
C3_Original ==
    observed.seen =>
        \A t \in Tasks :
            observed.states[t] = "PENDING" =>
                futures[t] \in {"PENDING", "CANCELLED"}

\* process_files has returned after seeing the flag: one task was cancelled,
\* one that was running then has finished.
C3_Witness ==
    /\ pf_return.done
    /\ observed.seen
    /\ \E t \in Tasks : futures[t] = "CANCELLED"
    /\ \E t \in Tasks : observed.states[t] = "RUNNING" /\ futures[t] = "FINISHED"

\* C4 (as amended): when SIGINT arrives while the handler is installed and
\* before main tests the flag at line 720, main returns 130; it returns 130 in
\* no other case, and 0 or 1 when the only SIGINT came after that test.
C4_InterruptStatus ==
    pc = "exit" =>
        /\ exit_status \in {0, 1, 130}
        /\ (interrupted /\ ~late_signal) => exit_status = 130
        /\ exit_status = 130 => (interrupted /\ ~late_signal)

\* C4 as stated: any SIGINT while the handler is installed gives 130.
C4_Original ==
    (pc = "exit" /\ interrupted) => exit_status = 130

\* main returned 130 from a run that cancelled a task.
C4_Witness ==
    /\ pc = "exit"
    /\ exit_status = 130
    /\ \E t \in Tasks : futures[t] = "CANCELLED"

\* The run did all it planned: a dry run, or every move task's result counted
\* (or nothing to do).
RunCompleted ==
    /\ pf_return.done
    /\ args.dry_run \/ completed = Len(move_tasks)

\* C5: main returns 0 for a completed run without errors, 1 for a completed
\* run with errors or a failed precondition, and 130 only for a run cancelled
\* before completion.
C5_ExitStatus ==
    pc = "exit" =>
        /\ ~pf_return.done => exit_status = 1
        /\ RunCompleted =>
              exit_status = (IF pf_return.errors = 0 THEN 0 ELSE 1)
        /\ exit_status = 130 => (pf_return.done /\ ~RunCompleted)

\* C6: a dry run leaves the filesystem as main found it.
C6_DryRunNoMutation ==
    args.dry_run => (fs_dirs = fs0.dirs /\ fs_files = fs0.files)

\* The names in folder when main started.
ListingAtStart(folder) ==
    IF folder \in fs0.dirs
    THEN {Name(p) : p \in {q \in fs0.files : Parent(q) = folder}}
    ELSE {}

\* What the i-th planned move may not be named: the folder's files at the
\* start and the names of the earlier tasks of the same folder.
TakenBefore(i) ==
    ListingAtStart(plan.file_infos[i].dest_folder)
        \cup {Name(move_tasks[j].dest_path) :
                 j \in {k \in 1..(i - 1) :
                           Parent(move_tasks[k].dest_path)
                               = plan.file_infos[i].dest_folder}}

ExpectedName(i) ==
    LET base == plan.file_infos[i].new_filename
        free == {n \in 2..Ceiling :
                    CounterBeforeExtension(base, n) \notin TakenBefore(i)}
    IN  IF base \notin TakenBefore(i) THEN base
        ELSE IF free = {}
        THEN CounterBeforeExtension(base, Ceiling + 1)
        ELSE CounterBeforeExtension(
                 base, CHOOSE n \in free : \A m \in free : n <= m)

TasksAsPlanned ==
    \A i \in TaskIndex :
        move_tasks[i] =
            [source |-> plan.file_infos[i].path,
             dest_path |-> plan.file_infos[i].dest_folder \o <<ExpectedName(i)>>,
             is_duplicate |-> ExpectedName(i) # plan.file_infos[i].new_filename]

\* C7 (as amended): in a dry run and in a real run alike, the list of
\* (source, destination, wasDeduplicated) triples is the one function of the
\* plan and of the filesystem at the start; a dry run reports as many
\* successes as there are triples, and so does a real run in which no move
\* fails and which is not cancelled.
C7_DryRunMatchesRealRun ==
    /\ TasksAsPlanned
    /\ (pf_return.done /\ plan.file_infos # <<>>) =>
          /\ Len(move_tasks) = Len(plan.file_infos)
          /\ args.dry_run =>
                pf_return = [done |-> TRUE, success |-> Len(move_tasks),
                             errors |-> 0]
          /\ (/\ ~args.dry_run
              /\ ~observed.seen
              /\ \A t \in DOMAIN results : results[t].success) =>
                pf_return = [done |-> TRUE, success |-> Len(move_tasks),
                             errors |-> 0]

\* C7 as stated: every real run in which no move fails reports what the dry
\* run reports.
C7_Original ==
    /\ TasksAsPlanned
    /\ (/\ pf_return.done
        /\ plan.file_infos # <<>>
        /\ \A t \in DOMAIN results : results[t].success) =>
          pf_return = [done |-> TRUE, success |-> Len(move_tasks),
                       errors |-> 0]

\* A real run that moved two files, one of them under a name changed because
\* of a file on disk, and reported two successes.
C7_Witness ==
    /\ pf_return = [done |-> TRUE, success |-> 2, errors |-> 0]
    /\ ~args.dry_run
    /\ \E t \in TaskIndex :
          /\ move_tasks[t].is_duplicate
          /\ plan.file_infos[t].new_filename
                \in ListingAtStart(plan.file_infos[t].dest_folder)
          /\ move_tasks[t].dest_path \in fs_files

(***************************************************************************)
(* The listing cache of the allocator (checked under SpecGen).             *)
(***************************************************************************)
\* C11: a folder is listed at the first generate call for it (a folder that
\* does not exist gives the empty set); the cached set never changes, and
\* every generate call for the folder works from that first listing,
\* whatever the folder holds by then.
C11_ListingCachedOnce ==
    /\ DOMAIN existing_cache = DOMAIN first_disk
    /\ \A f \in DOMAIN existing_cache :
          /\ existing_cache[f] = first_disk[f]
          /\ f \notin fs_dirs => existing_cache[f] = {}
    /\ \A i \in LogIndex :
          /\ gen_log[i].pre_existing = first_disk[gen_log[i].folder]
          /\ gen_log[i].result \in first_disk[gen_log[i].folder]
                => gen_log[i].error

\* A file was created in folder x after x was listed, and a later generate
\* call returned that very name without an error.
C11_Witness ==
    /\ FolderX \in DOMAIN first_disk
    /\ NameA2 \notin first_disk[FolderX]
    /\ FolderX \o <<NameA2>> \in fs_files
    /\ \E i \in LogIndex :
          /\ gen_log[i].folder = FolderX
          /\ gen_log[i].result = NameA2
          /\ ~gen_log[i].error
          /\ \E j \in 1..(i - 1) : gen_log[j].folder = FolderX
    /\ \E i \in LogIndex :
          /\ gen_log[i].folder = FolderY
          /\ FolderY \notin fs_dirs

(***************************************************************************)
(* Functions called on their own: plan_moves, validate_date,               *)
(* validate_paths.                                                         *)
(***************************************************************************)
A_JPEG == <<"a", ".", "J", "p", "e", "g">>          \* "a.Jpeg"
UP_B_CR3 == <<"b", ".", "C", "R", "3">>             \* "b.CR3"
E_DNG == <<"e", ".", "d", "n", "g">>                \* "e.dng"
X_Y_JPG == <<"x", ".", "y", ".", "j", "p", "g">>    \* "x.y.jpg"
HID_JPG == <<".", "j", "p", "g">>                   \* ".jpg": no extension
NOEXT == <<"r", "a", "w">>                          \* "raw": no extension

PlanNames ==
    {A_JPG, UP_A_JPG, A_JPEG, B_CR3, UP_B_CR3, E_DNG, X_Y_JPG, N_TXT,
     HID_JPG, NOEXT}

\* The file lists plan_moves is called with: up to two files of one
\* folder, and "a.jpg", "b.cr3" and "e.dng" in each of their orders.
PlanFiles ==
    {<<>>} \cup {<<IN_DIR \o <<n>>>> : n \in PlanNames}
           \cup {<<IN_DIR \o <<p[1]>>, IN_DIR \o <<p[2]>>>> :
                    p \in {q \in PlanNames \X PlanNames : q[1] # q[2]}}
           \cup {<<IN_DIR \o <<p[1]>>, IN_DIR \o <<p[2]>>, IN_DIR \o <<p[3]>>>> :
                    p \in {q \in {A_JPG, B_CR3, E_DNG} \X {A_JPG, B_CR3, E_DNG}
                                  \X {A_JPG, B_CR3, E_DNG} :
                              q[1] # q[2] /\ q[1] # q[3] /\ q[2] # q[3]}}

\* file_dates and the mtimes of a call: every file dated by exiftool; none
\* (one with an empty string), all with an mtime; exiftool dates for the
\* "a" files only and no mtime readable.
PlanDates ==
    { [file_dates |-> [n \in PlanNames |-> T1],
       mtime |-> [n \in PlanNames |-> T2]],
      [file_dates |-> (A_JPG :> <<>>),
       mtime |-> [n \in PlanNames |-> T2]],
      [file_dates |-> [n \in {A_JPG, UP_A_JPG, A_JPEG} |-> T1],
       mtime |-> [n \in {E_DNG} |-> T2]],
      [file_dates |-> [n \in {A_JPG, UP_A_JPG, A_JPEG} |-> T1],
       mtime |-> <<>>] }

PlanMovesInit ==
    \E fl \in PlanFiles, d \in PlanDates, raw \in BOOLEAN :
        call = [fn |-> "plan_moves", files |-> fl,
                file_dates |-> d.file_dates, mtime |-> d.mtime,
                output_folder |-> OUT_DIR, move_raw_to_orig |-> raw]

PlanMovesCall ==
    /\ call.fn = "plan_moves"
    /\ ~ret.done
    /\ ret' = [done |-> TRUE,
               value |-> PlanMoves(call.files, call.file_dates, call.mtime,
                                   call.output_folder, call.move_raw_to_orig)]
    /\ UNCHANGED <<fsVars, genVars, pipeVars, call, batch_i, exif_dates,
                   tool_log>>

\* Optional[str]: None, or a string.
None == [some |-> FALSE]
Some(s) == [some |-> TRUE, str |-> s]

\* A decimal digit that is not ASCII (ARABIC-INDIC DIGIT THREE), as one
\* character.
ArabicThree == "U+0663"

\* \d of a str pattern: the Unicode decimal digits.
IsDigit(c) == c \in {Digit[i] : i \in 1..Len(Digit)} \cup {ArabicThree}

\* DATE_PATTERN.match(s) is not None.  "^" is the start of the string; "$"
\* matches at the end of the string and also just before a newline that is
\* its last character.
DatePatternMatch(s) ==
    LET core == IF Len(s) = Len(T1) + 1 /\ s[Len(s)] = "\n"
                THEN SubSeq(s, 1, Len(s) - 1) ELSE s
    IN  /\ Len(core) = 17
        /\ \A i \in 1..17 :
              IF i \in {5, 8, 11} THEN core[i] = "_" ELSE IsDigit(core[i])

\* validate_date(), lines 150-152.
ValidateDate(date_str) ==
    IF date_str.some /\ date_str.str # <<>> /\ DatePatternMatch(date_str.str)
    THEN date_str
    ELSE None

\* s with its k-th character replaced by c.
ReplaceAt(s, k, c) == [i \in 1..Len(s) |-> IF i = k THEN c ELSE s[i]]

\* Characters put into, after or before a timestamp.
OddChars == {"0", "_", "-", " ", "x", "\n", "\t", ArabicThree}

\* The arguments validate_date is called with.
DateInputs ==
    {None}
        \cup {Some(s) : s \in {T1, T2, <<>>, <<" ">>, <<" ", " ">>, <<"\n">>,
                               <<"-">>, SubSeq(T1, 1, 16), SubSeq(T1, 1, 10),
                               T1 \o <<"\n", "\n">>, T1 \o T1}}
        \cup {Some(T1 \o <<c>>) : c \in OddChars}
        \cup {Some(<<c>> \o T1) : c \in OddChars}
        \cup {Some(ReplaceAt(T1, k, c)) : k \in 1..Len(T1), c \in OddChars}

ValidateDateInit ==
    \E d \in DateInputs : call = [fn |-> "validate_date", date_str |-> d]

ValidateDateCall ==
    /\ call.fn = "validate_date"
    /\ ~ret.done
    /\ ret' = [done |-> TRUE, value |-> ValidateDate(call.date_str)]
    /\ UNCHANGED <<fsVars, genVars, pipeVars, call, batch_i, exif_dates,
                   tool_log>>

\* Path.resolve(): a path through a symbolic link becomes the path through
\* the link's target (links: link -> absolute real target).
Resolve(links, p) ==
    LET through == {q \in DOMAIN links : IsRelativeTo(p, q)}
    IN  IF through = {} THEN p
        ELSE LET q == CHOOSE x \in through : TRUE
             IN  links[q] \o SubSeq(p, Len(q) + 1, Len(p))

\* validate_paths(), lines 408-430: os_error is whether resolving raises
\* OSError.
ValidatePathsOf(input_folder, output_folder, links, os_error) ==
    IF os_error THEN FALSE
    ELSE ValidatePaths(Resolve(links, input_folder),
                       Resolve(links, output_folder))

DEEP_DIR == <<<<"i", "n">>, <<"s", "u", "b">>, <<"d">>>>
LINK == <<<<"l", "i", "n", "k">>>>
LINK_SUB == <<<<"l", "i", "n", "k">>, <<"s", "u", "b">>>>

PathInputs == {IN_DIR, SUB_DIR, DEEP_DIR, OUT_DIR, LINK, LINK_SUB}

\* No link, or /link pointing at one of the real folders.
LinkTables ==
    {<<>>} \cup {(LINK :> t) : t \in {IN_DIR, SUB_DIR, OUT_DIR}}

ValidatePathsInit ==
    \E i \in PathInputs, o \in PathInputs, l \in LinkTables, e \in BOOLEAN :
        call = [fn |-> "validate_paths", input_folder |-> i,
                output_folder |-> o, links |-> l, os_error |-> e]

ValidatePathsCall ==
    /\ call.fn = "validate_paths"
    /\ ~ret.done
    /\ ret' = [done |-> TRUE,
               value |-> ValidatePathsOf(call.input_folder,
                                         call.output_folder, call.links,
                                         call.os_error)]
    /\ UNCHANGED <<fsVars, genVars, pipeVars, call, batch_i, exif_dates,
                   tool_log>>

\* One call of one of the three functions.
CallsInit ==
    /\ fs_dirs = {IN_DIR, OUT_DIR}
    /\ fs_files = {}
    /\ GenStart
    /\ PipeIdle
    /\ PlanMovesInit \/ ValidateDateInit \/ ValidatePathsInit
    /\ ret = [done |-> FALSE, value |-> <<>>]
    /\ batch_i = 0
    /\ exif_dates = <<>>
    /\ tool_log = <<>>

CallsNext == PlanMovesCall \/ ValidateDateCall \/ ValidatePathsCall

SpecCalls == CallsInit /\ [][CallsNext]_vars

(***************************************************************************)
(* Properties of plan_moves (checked under SpecCalls).                     *)
(***************************************************************************)
\* The two cases of the letters and digits extensions are written in.
Spellings(c) ==
    IF c \in {"a", "A"} THEN {"a", "A"}
    ELSE IF c \in {"c", "C"} THEN {"c", "C"}
    ELSE IF c \in {"d", "D"} THEN {"d", "D"}
    ELSE IF c \in {"e", "E"} THEN {"e", "E"}
    ELSE IF c \in {"f", "F"} THEN {"f", "F"}
    ELSE IF c \in {"g", "G"} THEN {"g", "G"}
    ELSE IF c \in {"j", "J"} THEN {"j", "J"}
    ELSE IF c \in {"n", "N"} THEN {"n", "N"}
    ELSE IF c \in {"o", "O"} THEN {"o", "O"}
    ELSE IF c \in {"p", "P"} THEN {"p", "P"}
    ELSE IF c \in {"r", "R"} THEN {"r", "R"}
    ELSE IF c \in {"w", "W"} THEN {"w", "W"}
    ELSE {c}

\* name is something followed by ext, in any mix of cases.
HasExtension(name, ext) ==
    /\ Len(name) > Len(ext)
    /\ \A i \in 1..Len(ext) :
          name[Len(name) - Len(ext) + i] \in Spellings(ext[i])

JpegLike(name) == \E e \in JPEG_EXTENSIONS : HasExtension(name, e)
RawLike(name) == \E e \in RAW_EXTENSIONS : HasExtension(name, e)

PlanReturned == call.fn = "plan_moves" /\ ret.done

\* The timestamp plan_moves resolves for the k-th file of the call: the one
\* of file_dates unless absent or empty, else the mtime, else none.
ResolvedDate(k) ==
    LET n == Name(call.files[k])
    IN  IF n \in DOMAIN call.file_dates /\ call.file_dates[n] # <<>>
        THEN call.file_dates[n]
        ELSE IF n \in DOMAIN call.mtime THEN call.mtime[n]
        ELSE <<>>

\* The files of the call that have a timestamp, in order.
DatedFiles ==
    SelectSeq([k \in 1..Len(call.files) |-> k],
              LAMBDA k : ResolvedDate(k) # <<>>)

\* C12: every file with a timestamp is planned; a JPEG-like one goes to
\* {output}/{date}/!orig whatever the flag, a RAW-like one to
\* {output}/{date}/!orig if the flag is set and to {output}/{date} if not.
C12_Routing ==
    PlanReturned =>
        /\ Len(ret.value.file_infos) = Len(DatedFiles)
        /\ \A i \in 1..Len(DatedFiles) :
              LET fi == ret.value.file_infos[i]
                  name == Name(call.files[DatedFiles[i]])
                  date == SubSeq(ResolvedDate(DatedFiles[i]), 1, 10)
              IN  /\ fi.path = call.files[DatedFiles[i]]
                  /\ JpegLike(name) =>
                        fi.dest_folder = call.output_folder \o <<date, ORIG>>
                  /\ RawLike(name) =>
                        fi.dest_folder =
                            IF call.move_raw_to_orig
                            THEN call.output_folder \o <<date, ORIG>>
                            ELSE call.output_folder \o <<date>>

\* Without the flag, "A.JPG" was sent to !orig and "b.CR3" to the date
\* folder.
C12_Witness ==
    /\ PlanReturned
    /\ ~call.move_raw_to_orig
    /\ Len(ret.value.file_infos) = 2
    /\ ret.value.file_infos[1].path = IN_DIR \o <<UP_A_JPG>>
    /\ ret.value.file_infos[1].dest_folder = OUT_DIR \o <<D1, ORIG>>
    /\ ret.value.file_infos[2].path = IN_DIR \o <<UP_B_CR3>>
    /\ ret.value.file_infos[2].dest_folder = OUT_DIR \o <<D1>>

\* C13: the proposed filename of a planned move is its timestamp, "_" and
\* the original stem and extension, that is the original name with every
\* character in its case; the timestamp is the resolved one, and the date
\* folder is its first 10 characters.
C13_FilenameAndDateFolder ==
    PlanReturned =>
        /\ Len(ret.value.file_infos) = Len(DatedFiles)
        /\ \A i \in 1..Len(DatedFiles) :
              LET fi == ret.value.file_infos[i]
                  name == Name(call.files[DatedFiles[i]])
                  ts == ResolvedDate(DatedFiles[i])
              IN  /\ fi.datetime_str = ts
                  /\ Len(fi.new_filename) = Len(ts) + 1 + Len(name)
                  /\ \A k \in 1..Len(ts) : fi.new_filename[k] = ts[k]
                  /\ fi.new_filename[Len(ts) + 1] = "_"
                  /\ \A k \in 1..Len(name) :
                        fi.new_filename[Len(ts) + 1 + k] = name[k]
                  /\ fi.dest_folder[Len(call.output_folder) + 1]
                        = [k \in 1..10 |-> ts[k]]
        /\ ret.value.date_folders =
              {[k \in 1..10 |-> ResolvedDate(DatedFiles[i])[k]] :
                  i \in 1..Len(DatedFiles)}

\* "A.JPG", not dated by exiftool, was planned under its mtime.
C13_Witness ==
    /\ PlanReturned
    /\ \E i \in DOMAIN ret.value.file_infos :
          /\ ret.value.file_infos[i].path = IN_DIR \o <<UP_A_JPG>>
          /\ ret.value.file_infos[i].new_filename = T2 \o <<"_">> \o UP_A_JPG
          /\ ret.value.fallback_count > 0

(***************************************************************************)
(* get_exif_dates() and _run_exiftool_batch(), lines 155-225.  The text    *)
(* exiftool prints is a string; it is parsed as the code parses it.        *)
(***************************************************************************)
\* EXIFTOOL_BATCH_SIZE, scaled down from 5000.
BatchSize == 2

\* What str.strip() removes (of the characters used here).
Whitespace == {" ", "\t", "\n", "\r"}

RECURSIVE LStrip(_)
LStrip(s) ==
    IF s # <<>> /\ s[1] \in Whitespace THEN LStrip(Tail(s)) ELSE s

RECURSIVE RStrip(_)
RStrip(s) ==
    IF s # <<>> /\ s[Len(s)] \in Whitespace
    THEN RStrip(SubSeq(s, 1, Len(s) - 1)) ELSE s

\* Mutant of Strip: only the end of the string is stripped.
StripRightOnly(s) == RStrip(s)

Strip(s) == LStrip(RStrip(s))

\* s.split(sep) for a one-character sep.
RECURSIVE SplitOn(_, _)
SplitOn(s, sep) ==
    LET at == {i \in 1..Len(s) : s[i] = sep}
    IN  IF at = {} THEN <<s>>
        ELSE LET k == CHOOSE i \in at : \A j \in at : i <= j
             IN  <<SubSeq(s, 1, k - 1)>>
                    \o SplitOn(SubSeq(s, k + 1, Len(s)), sep)

\* Path(s).name for s that does not end in "/": what follows the last "/".
PathName(s) ==
    LET at == {i \in 1..Len(s) : s[i] = "/"}
    IN  IF at = {} THEN s
        ELSE SubSeq(s, (CHOOSE i \in at : \A j \in at : j <= i) + 1, Len(s))

\* dict.update / d[k] = v: the entries of new, and those of old it lacks.
UpdateReplaces(old, new) == new

Update(old, new) ==
    [k \in DOMAIN old \cup DOMAIN new |->
        IF k \in DOMAIN new THEN new[k] ELSE old[k]]

\* `a or b` of two Optional[str] validate_date returned.
OrElse(a, b) == IF a.some /\ a.str # <<>> THEN a ELSE b

\* Mutant of ParseLine: CreateDate is preferred.
ParseLinePrefersCreate(dates, line) ==
    LET parts == SplitOn(line, "\t")
        date_original == ValidateDate(Some(Strip(parts[2])))
        date_create == IF Len(parts) >= 3
                       THEN ValidateDate(Some(Strip(parts[3]))) ELSE None
        date_value == OrElse(date_create, date_original)
    IN  IF Len(parts) < 2 THEN dates
        ELSE IF date_value.some
        THEN Update(dates, (PathName(parts[1]) :> date_value.str))
        ELSE dates

\* The body of the loop over the lines, lines 189-202, on the dict so far.
ParseLine(dates, line) ==
    LET parts == SplitOn(line, "\t")
        date_original == ValidateDate(Some(Strip(parts[2])))
        date_create == IF Len(parts) >= 3
                       THEN ValidateDate(Some(Strip(parts[3]))) ELSE None
        date_value == OrElse(date_original, date_create)
    IN  IF Len(parts) < 2 THEN dates
        ELSE IF date_value.some
        THEN Update(dates, (PathName(parts[1]) :> date_value.str))
        ELSE dates

RECURSIVE ParseLines(_)
ParseLines(lines) ==
    IF lines = <<>> THEN <<>>
    ELSE ParseLine(ParseLines(SubSeq(lines, 1, Len(lines) - 1)),
                   lines[Len(lines)])

\* _run_exiftool_batch() on what subprocess.run did: it timed out, or the
\* tool printed stdout.
RunExiftoolBatch(outcome) ==
    IF outcome.timeout THEN <<>>
    ELSE IF Strip(outcome.stdout) = <<>> THEN <<>>
    ELSE ParseLines(SplitOn(Strip(outcome.stdout), "\n"))

SP_A_JPG == <<" ", "a">> \o JPG                     \* " a.jpg"
NotADate == T1 \o <<"x">>
Dash == <<"-">>                                     \* exiftool -T: no such tag

\* The lists get_exif_dates is called with: the first files of a folder, in
\* find_files' order, up to two more than one batch holds.
ExifFolders ==
    {<<SP_A_JPG, A_JPG, B_CR3, C_JPG, D_JPG>>,
     <<A_JPG, B_CR3, C_JPG, D_JPG, E_DNG>>}

ExifFileLists ==
    {[k \in 1..n |-> IN_DIR \o <<f[k]>>] :
        n \in 0..(BatchSize + 2), f \in ExifFolders}

\* What exiftool may print for the file called name: the name or a path to
\* it, then DateTimeOriginal and CreateDate.
RowsFor(name) ==
    { [file |-> name, first |-> name, fields |-> <<T1, T2>>],
      [file |-> name, first |-> name, fields |-> <<Dash, T2>>],
      [file |-> name, first |-> name, fields |-> <<Dash, Dash>>],
      [file |-> name, first |-> name, fields |-> <<NotADate, Dash>>],
      [file |-> name, first |-> name, fields |-> <<T1>>],
      [file |-> name, first |-> <<"i", "n", "/">> \o name,
       fields |-> <<Dash, T2>>] }

RECURSIVE JoinFields(_)
JoinFields(fields) ==
    IF fields = <<>> THEN <<>>
    ELSE <<"\t">> \o fields[1] \o JoinFields(Tail(fields))

\* The rows as text, one line each.
RECURSIVE RowsText(_)
RowsText(rows) ==
    IF rows = <<>> THEN <<>>
    ELSE rows[1].first \o JoinFields(rows[1].fields) \o <<"\n">>
            \o RowsText(Tail(rows))

\* What one invocation on batch may do: time out, or print a row for each
\* file of the batch, or for all but the last (a file it could not read).
ToolOutcomes(batch) ==
    {[timeout |-> TRUE, rows |-> <<>>, stdout |-> <<>>]}
        \cup {[timeout |-> FALSE, rows |-> rows, stdout |-> RowsText(rows)] :
                 rows \in UNION {
                     {r \in [1..n -> UNION {RowsFor(Name(batch[k])) :
                                               k \in 1..Len(batch)}] :
                         \A k \in 1..n : r[k].file = Name(batch[k])} :
                     n \in {Len(batch) - 1, Len(batch)}}}

\* files[i : i + EXIFTOOL_BATCH_SIZE], i counted from 0.
Batch(fl, i) ==
    SubSeq(fl, i + 1,
           IF i + BatchSize <= Len(fl) THEN i + BatchSize ELSE Len(fl))

ExifInit ==
    /\ fs_dirs = {IN_DIR, OUT_DIR}
    /\ fs_files = {}
    /\ GenStart
    /\ PipeIdle
    /\ \E fl \in ExifFileLists : call = [fn |-> "get_exif_dates", files |-> fl]
    /\ ret = [done |-> FALSE, value |-> <<>>]
    /\ batch_i = 0
    /\ exif_dates = <<>>
    /\ tool_log = <<>>

\* Lines 216-217: `if not files: return {}`.
ExifNoFiles ==
    /\ call.fn = "get_exif_dates"
    /\ ~ret.done
    /\ call.files = <<>>
    /\ ret' = [done |-> TRUE, value |-> <<>>]
    /\ UNCHANGED <<fsVars, genVars, pipeVars, call, batch_i, exif_dates,
                   tool_log>>

\* Lines 221-223: one turn of the loop.
ExifBatch ==
    /\ call.fn = "get_exif_dates"
    /\ ~ret.done
    /\ call.files # <<>>
    /\ batch_i < Len(call.files)
    /\ \E outcome \in ToolOutcomes(Batch(call.files, batch_i)) :
          LET dates == RunExiftoolBatch(outcome)
          IN  /\ exif_dates' = Update(exif_dates, dates)
              /\ tool_log' = Append(tool_log,
                                    [batch |-> Batch(call.files, batch_i),
                                     timeout |-> outcome.timeout,
                                     rows |-> outcome.rows,
                                     dates |-> dates])
    /\ batch_i' = batch_i + BatchSize
    /\ UNCHANGED <<fsVars, genVars, pipeVars, call, ret>>

\* Line 225.
ExifReturn ==
    /\ call.fn = "get_exif_dates"
    /\ ~ret.done
    /\ call.files # <<>>
    /\ batch_i >= Len(call.files)
    /\ ret' = [done |-> TRUE, value |-> exif_dates]
    /\ UNCHANGED <<fsVars, genVars, pipeVars, call, batch_i, exif_dates,
                   tool_log>>

ExifNext == ExifNoFiles \/ ExifBatch \/ ExifReturn

SpecExif == ExifInit /\ [][ExifNext]_vars

(***************************************************************************)
(* Properties of the metadata resolver (checked under SpecExif).           *)
(***************************************************************************)
\* s is 4 digits, "_", 2 digits, "_", 2 digits, "_", 6 digits.
TimestampShape(s) ==
    /\ Len(s) = 17
    /\ \A i \in {5, 8, 11} : s[i] = "_"
    /\ \A i \in (1..17) \ {5, 8, 11} :
          s[i] \in {"0", "1", "2", "3", "4", "5", "6", "7", "8", "9"}

\* The date a row stands for: captured if valid, else created if valid.
RowDate(r) ==
    IF Len(r.fields) >= 1 /\ TimestampShape(r.fields[1])
    THEN Some(r.fields[1])
    ELSE IF Len(r.fields) >= 2 /\ TimestampShape(r.fields[2])
    THEN Some(r.fields[2])
    ELSE None

\* C14: for each row exiftool printed, the dict of that invocation maps the
\* file's base name to the captured date if valid, else to the created date
\* if valid, and else has no entry for the file; no entry is an invalid
\* value.
C14_RowsResolved ==
    \A e \in 1..Len(tool_log) :
        /\ \A k \in DOMAIN tool_log[e].rows :
              LET r == tool_log[e].rows[k]
                  dates == tool_log[e].dates
              IN  IF RowDate(r).some
                  THEN /\ r.file \in DOMAIN dates
                       /\ dates[r.file] = RowDate(r).str
                  ELSE r.file \notin DOMAIN dates
        /\ \A n \in DOMAIN tool_log[e].dates :
              TimestampShape(tool_log[e].dates[n])

\* The same, of the files whose name does not start with a blank.
C14_RowsResolvedNoBlank ==
    \A e \in 1..Len(tool_log) :
        (\A k \in DOMAIN tool_log[e].batch :
            Name(tool_log[e].batch[k])[1] # " ") =>
        /\ \A k \in DOMAIN tool_log[e].rows :
              LET r == tool_log[e].rows[k]
                  dates == tool_log[e].dates
              IN  IF RowDate(r).some
                  THEN /\ r.file \in DOMAIN dates
                       /\ dates[r.file] = RowDate(r).str
                  ELSE r.file \notin DOMAIN dates
        /\ \A n \in DOMAIN tool_log[e].dates :
              TimestampShape(tool_log[e].dates[n])

\* The number of batches a list of n files is cut into.
BatchCount(n) == (n + BatchSize - 1) \div BatchSize

\* The merge of the first m per-batch results: for each name, the date of
\* the last of them that has the name.
MergedUpTo(m) ==
    LET names == UNION {DOMAIN tool_log[e].dates : e \in 1..m}
    IN  [n \in names |->
            LET last == CHOOSE e \in 1..m :
                           /\ n \in DOMAIN tool_log[e].dates
                           /\ \A g \in (e + 1)..m :
                                 n \notin DOMAIN tool_log[g].dates
            IN  tool_log[last].dates[n]]

\* C15: the invocations so far are of the consecutive batches of the list,
\* in order, each of at most BatchSize paths and all but the last of exactly
\* that many; a batch that timed out gave no dates; the dict so far is the
\* merge of the per-batch results; get_exif_dates returns only when every
\* batch has been invoked, timed out or not, and returns that merge.
C15_BatchesMerged ==
    call.fn = "get_exif_dates" =>
        /\ Len(tool_log) <= BatchCount(Len(call.files))
        /\ \A e \in 1..Len(tool_log) :
              /\ Len(tool_log[e].batch) >= 1
              /\ Len(tool_log[e].batch) <= BatchSize
              /\ e < BatchCount(Len(call.files))
                    => Len(tool_log[e].batch) = BatchSize
              /\ \A k \in 1..Len(tool_log[e].batch) :
                    tool_log[e].batch[k] = call.files[(e - 1) * BatchSize + k]
              /\ tool_log[e].timeout => tool_log[e].dates = <<>>
        /\ exif_dates = MergedUpTo(Len(tool_log))
        /\ ret.done =>
              /\ Len(tool_log) = BatchCount(Len(call.files))
              /\ \A k \in 1..Len(call.files) :
                    \E e \in 1..Len(tool_log) :
                        \E j \in 1..Len(tool_log[e].batch) :
                            tool_log[e].batch[j] = call.files[k]
              /\ ret.value = MergedUpTo(Len(tool_log))

\* get_exif_dates returned the dates of its second batch after its first
\* batch had timed out.
C15_Witness ==
    /\ call.fn = "get_exif_dates"
    /\ ret.done
    /\ Len(tool_log) = 2
    /\ tool_log[1].timeout
    /\ ~tool_log[2].timeout
    /\ tool_log[2].dates # <<>>
    /\ ret.value = tool_log[2].dates

(***************************************************************************)
(* Properties of validate_date and validate_paths (checked under           *)
(* SpecCalls).                                                             *)
(***************************************************************************)
\* s is 4 digits, "_", 2 digits, "_", 2 digits, "_", 6 digits and nothing
\* else, a digit being any decimal digit.
ExactShape(s) ==
    /\ Len(s) = 17
    /\ \A i \in {5, 8, 11} : s[i] = "_"
    /\ \A i \in (1..17) \ {5, 8, 11} :
          s[i] \in {"0", "1", "2", "3", "4", "5", "6", "7", "8", "9",
                    ArabicThree}

\* C16: validate_date returns its argument for a string of exactly 4
\* digits, "_", 2 digits, "_", 2 digits, "_", 6 digits, and None for every
\* other argument, a timestamp followed by one more character included.
C16_ValidateDate ==
    (call.fn = "validate_date" /\ ret.done) =>
        ret.value =
            IF call.date_str.some /\ ExactShape(call.date_str.str)
            THEN call.date_str
            ELSE None

\* b is below a, and is not a.
StrictDescendant(b, a) ==
    /\ Len(b) > Len(a)
    /\ \A i \in 1..Len(a) : b[i] = a[i]

\* C17 (as amended): validate_paths rejects exactly when resolving a path
\* raises OSError or the resolved output is a strict descendant of the
\* resolved input; otherwise (equal, input inside output, unrelated) it
\* accepts.
C17_ValidatePaths ==
    (call.fn = "validate_paths" /\ ret.done) =>
        (ret.value = FALSE <=>
            \/ call.os_error
            \/ StrictDescendant(Resolve(call.links, call.output_folder),
                                Resolve(call.links, call.input_folder)))

\* C17 as stated: the only configurations rejected are those with the
\* output strictly below the input.
C17_Original ==
    (call.fn = "validate_paths" /\ ret.done) =>
        (ret.value = FALSE <=>
            StrictDescendant(Resolve(call.links, call.output_folder),
                             Resolve(call.links, call.input_folder)))

\* An output given through a link that leads below the input was rejected.
C17_Witness ==
    /\ call.fn = "validate_paths"
    /\ ret.done
    /\ ~call.os_error
    /\ call.input_folder = IN_DIR
    /\ call.output_folder = LINK
    /\ call.links = (LINK :> SUB_DIR)
    /\ ret.value = FALSE

(***************************************************************************)
(* Further properties of a run of main() (checked under Spec).             *)
(***************************************************************************)
\* One of the three checks of lines 698-706 fails for this command line.
FatalPrecondition ==
    \/ args.input_folder \notin fs0.dirs
    \/ ~env.exiftool_ok
    \/ StrictDescendant(args.output_folder, args.input_folder)

\* C18: when the input directory is missing, exiftool is unavailable or the
\* output is nested inside the input, main never gets past its checks: the
\* filesystem stays as it was (no output folder created, no file moved),
\* process_files and its discovery never start, and the status main returns
\* is 1.
C18_FatalBeforeMutation ==
    FatalPrecondition =>
        /\ pc \in {"main", "exit"}
        /\ fs_dirs = fs0.dirs
        /\ fs_files = fs0.files
        /\ ~installed
        /\ files = <<>>
        /\ move_tasks = <<>>
        /\ ~pf_return.done
        /\ pc = "exit" => (exit_status = 1 /\ exit_status # 0)

\* main has returned 1 on a failed check, and the output folder, which did
\* not exist, has not been created.
C18_Witness ==
    /\ pc = "exit"
    /\ exit_status = 1
    /\ args.output_folder \notin fs_dirs
    /\ \/ (~env.exiftool_ok /\ args.output_folder = NEW_DIR)
       \/ (args.output_folder = SUB_DIR /\ args.input_folder \in fs_dirs)

\* The results the loop has consumed, by kind.
Succeeded == {t \in yielded : results[t].success}
Failed == {t \in yielded : ~results[t].success}

\* process_files ran its pool to the end without the loop seeing the flag.
UninterruptedReturn ==
    /\ pf_return.done
    /\ ~args.dry_run
    /\ ~observed.seen
    /\ move_tasks # <<>>

\* C19: at every point each consumed result has been counted once, a
\* success as a success and a failed move as an error; when a real run in
\* which the loop never sees the interrupt flag returns, every move task has
\* run and been consumed, failed or not, and the two counts it returns sum
\* to the number of move tasks.
C19_ErrorsCounted ==
    /\ completed = Cardinality(yielded)
    /\ success_count = Cardinality(Succeeded)
    /\ error_count = Cardinality(Failed)
    /\ success_count + error_count = completed
    /\ UninterruptedReturn =>
          /\ \A t \in TaskIndex :
                /\ t \in DOMAIN futures
                /\ futures[t] = "FINISHED"
                /\ t \in yielded
          /\ pf_return.success = success_count
          /\ pf_return.errors = error_count
          /\ pf_return.success + pf_return.errors = Len(move_tasks)

\* A run returned one success and two errors; the task submitted first was
\* one of the failures.
C19_Witness ==
    /\ UninterruptedReturn
    /\ ~interrupted
    /\ pf_return.success = 1
    /\ pf_return.errors = 2
    /\ ~results[1].success

\* The files after the moves, whatever their order: those of the start
\* without the sources moved, with the destinations of the moves that
\* succeeded and the copies left by those that failed on deleting.
FilesAfterMoves ==
    (fs0.files \ {move_tasks[t].source : t \in Succeeded})
        \cup {move_tasks[t].dest_path : t \in Succeeded}
        \cup {move_tasks[t].dest_path :
                 t \in {u \in Failed : results[u].how = "partial"}}

\* C20: when a real run in which the loop never sees the interrupt flag
\* returns, the counts and the files on disk are the same function of the
\* plan and of which moves failed, in whatever order the workers ran the
\* moves and their results were consumed.
C20_OrderIndependent ==
    UninterruptedReturn =>
        /\ yielded = TaskIndex
        /\ pf_return.success = Cardinality({t \in TaskIndex : results[t].success})
        /\ pf_return.errors = Cardinality({t \in TaskIndex : ~results[t].success})
        /\ fs_files = FilesAfterMoves
        /\ fs_dirs = EnsureFoldersExist(fs0.dirs \cup Prefixes(args.output_folder),
                                        args.output_folder, plan.date_folders)

\* The result of the second task was consumed while the first task was
\* still running.
C20_OutOfOrder ==
    /\ pc = "as_completed"
    /\ 2 \in yielded
    /\ 1 \notin yielded
    /\ futures[1] = "RUNNING"

\* A run returned after both of its moves succeeded.
C20_Witness ==
    /\ UninterruptedReturn
    /\ Len(move_tasks) >= 2
    /\ pf_return.errors = 0
    /\ \A t \in TaskIndex : move_tasks[t].dest_path \in fs_files

(***************************************************************************)
(* Skipped files, the order of the phases and the folders (checked under   *)
(* Spec).                                                                  *)
(***************************************************************************)
\* plan_moves has returned in this run.
Planned == plan # EmptyPlan

\* The discovered files neither exiftool nor the mtime dates.
Dateless ==
    {k \in 1..Len(files) :
        /\ \/ Name(files[k]) \notin DOMAIN env.exif
           \/ env.exif[Name(files[k])] = <<>>
        /\ Name(files[k]) \notin DOMAIN env.mtime}

\* C21: the files without any timestamp are counted as skipped and are not
\* planned, so none becomes a move task or an error; when every discovered
\* file is skipped, process_files returns (0, 0) having created no folder
\* and moved no file.
C21_SkippedNotErrors ==
    Planned =>
        /\ plan.skipped_count = Cardinality(Dateless)
        /\ Len(plan.file_infos) = Len(files) - Cardinality(Dateless)
        /\ \A i \in DOMAIN plan.file_infos : \A k \in Dateless :
              plan.file_infos[i].path # files[k]
        /\ \A t \in TaskIndex : \A k \in Dateless :
              move_tasks[t].source # files[k]
        /\ error_count <= Len(move_tasks)
        /\ Cardinality(Dateless) = Len(files) =>
              /\ pf_return = [done |-> TRUE, success |-> 0, errors |-> 0]
              /\ move_tasks = <<>>
              /\ futures = <<>>
              /\ fs_dirs = fs0.dirs \cup Prefixes(args.output_folder)
              /\ fs_files = fs0.files

\* A real run whose only file has no date has returned from main.
C21_Witness ==
    /\ Planned
    /\ files # <<>>
    /\ Cardinality(Dateless) = Len(files)
    /\ ~args.dry_run
    /\ pc = "exit"
    /\ exit_status = 0

\* C22: every finished move has one result.  It is a success exactly when
\* os.rename succeeded or, that having failed, shutil.move did: it then
\* carries the destination path, and the file is at the destination and no
\* longer at the source.  Otherwise it is a failure carrying an error and no
\* destination path; when both calls changed nothing the source is where it
\* was.
C22_MoveResult ==
    /\ \A t \in Tasks : futures[t] = "FINISHED" <=> t \in DOMAIN results
    /\ \A t \in DOMAIN results :
          LET r == results[t]
              task == move_tasks[t]
          IN  /\ r.success <=> r.how \in {"rename", "copy"}
              /\ r.source_name = Name(task.source)
              /\ r.success =>
                    /\ r.dest_path = task.dest_path
                    /\ r.is_duplicate = task.is_duplicate
                    /\ ~r.error
                    /\ task.dest_path \in fs_files
                    /\ task.source \notin fs_files
              /\ ~r.success =>
                    /\ r.dest_path = NoPath
                    /\ r.error
                    /\ r.how = "fail" =>
                          (task.source \in fs_files
                              <=> task.source \in fs0.files)

\* One move succeeded through the copy fallback, and another failed after
\* copying, leaving the file at both places.
C22_Witness ==
    \E t \in DOMAIN results : \E u \in DOMAIN results :
        /\ results[t].how = "copy"
        /\ results[t].success
        /\ results[t].dest_path \in fs_files
        /\ results[u].how = "partial"
        /\ ~results[u].success
        /\ move_tasks[u].source \in fs_files
        /\ move_tasks[u].dest_path \in fs_files

\* The tasks have been submitted to the pool.
Submitted == futures # <<>>

\* C23: the generate calls are made one per planned move, in plan order;
\* when the tasks are submitted every one of them has returned, and from
\* then on the state of the allocator never changes.
C23_GenerateBeforeMoves ==
    /\ [](/\ Len(gen_log) = Len(move_tasks)
          /\ Len(gen_log) <= Len(plan.file_infos)
          /\ \A i \in 1..Len(gen_log) :
                /\ gen_log[i].folder = plan.file_infos[i].dest_folder
                /\ gen_log[i].base = plan.file_infos[i].new_filename
                /\ move_tasks[i].source = plan.file_infos[i].path
                /\ Name(move_tasks[i].dest_path) = gen_log[i].result
          /\ Submitted =>
                /\ Len(gen_log) = Len(plan.file_infos)
                /\ Len(futures) = Len(plan.file_infos))
    /\ [][Submitted => UNCHANGED <<genVars, move_tasks>>]_vars

\* A move is running after two names were generated.
C23_Witness ==
    /\ Running # {}
    /\ Len(gen_log) >= 2
    /\ Len(gen_log) = Len(plan.file_infos)

JPG_DIR == <<"!", "j", "p", "g">>

\* C24: in a real run, from the end of planning on, hence before any move
\* starts, every date folder of the plan exists under the output folder
\* with its !jpg and !orig subfolders, whether or not they existed before;
\* every planned destination folder is one of these, so the destination
\* folder of every move task exists whenever the task runs.
C24_FoldersBeforeMoves ==
    (Planned /\ plan.file_infos # <<>> /\ ~args.dry_run) =>
        /\ \A d \in plan.date_folders :
              /\ args.output_folder \o <<d>> \in fs_dirs
              /\ args.output_folder \o <<d, JPG_DIR>> \in fs_dirs
              /\ args.output_folder \o <<d, ORIG>> \in fs_dirs
        /\ \A i \in DOMAIN plan.file_infos :
              /\ plan.file_infos[i].dest_folder \in fs_dirs
              /\ \E d \in plan.date_folders :
                    plan.file_infos[i].dest_folder
                        \in {args.output_folder \o <<d>>,
                             args.output_folder \o <<d, ORIG>>}
        /\ \A t \in TaskIndex : Parent(move_tasks[t].dest_path) \in fs_dirs
        /\ fs0.dirs \subseteq fs_dirs

\* A move is running in a run that found the !orig folder of its date on
\* disk and had to create the !jpg folder.
C24_Witness ==
    /\ Running # {}
    /\ args.output_folder \o <<D1, ORIG>> \in fs0.dirs
    /\ args.output_folder \o <<D1, JPG_DIR>> \notin fs0.dirs
    /\ args.output_folder \o <<D1, JPG_DIR>> \in fs_dirs

(***************************************************************************)
(* The allocator's state is per folder (checked under SpecGen).            *)
(***************************************************************************)
\* The names returned for folder by the calls before the i-th.
ReturnedBefore(i, folder) ==
    {gen_log[j].result : j \in {k \in 1..(i - 1) : gen_log[k].folder = folder}}

\* C25: a generate call for a folder works from that folder's two sets
\* alone, the names claimed being those returned for that folder before;
\* it leaves the cached and the allocated set of every other folder as they
\* were.
C25_PerFolderState ==
    /\ [](\A i \in LogIndex :
             gen_log[i].pre_allocated = ReturnedBefore(i, gen_log[i].folder))
    /\ [](\A f \in DOMAIN allocated :
             allocated[f] = ReturnedBefore(Len(gen_log) + 1, f))
    /\ [][Len(gen_log') = Len(gen_log) + 1 =>
            LET A == gen_log'[Len(gen_log')].folder
            IN  /\ DOMAIN existing_cache' = DOMAIN existing_cache \cup {A}
                /\ DOMAIN allocated' = DOMAIN allocated \cup {A}
                /\ \A B \in DOMAIN existing_cache \ {A} :
                      existing_cache'[B] = existing_cache[B]
                /\ \A B \in DOMAIN allocated \ {A} :
                      allocated'[B] = allocated[B]]_vars

\* "a.j" was returned unchanged for folder x and again for folder y.
C25_Witness ==
    \E i \in LogIndex : \E j \in LogIndex :
        /\ i < j
        /\ gen_log[i].folder = FolderX
        /\ gen_log[j].folder = FolderY
        /\ gen_log[i].base = NameA
        /\ gen_log[j].base = NameA
        /\ gen_log[i].result = NameA
        /\ gen_log[j].result = NameA
        /\ allocated[FolderX] # allocated[FolderY]

(***************************************************************************)
(* Termination (checked under SpecFair): the run of Spec in which the      *)
(* coordinator keeps taking steps, the pool's threads are scheduled while  *)
(* a work item is queued or running, and every move that was started       *)
(* returns.  SIGINT is under no obligation to arrive.                      *)
(***************************************************************************)
\* The steps of the main thread, which runs whenever it is not blocked.
Coordinator ==
    \/ MainInputMissing
    \/ MainNoExiftool
    \/ MainBadPaths
    \/ MainSetup
    \/ PfFindFiles
    \/ PfPlan
    \/ PfGenerate
    \/ PfDryRun
    \/ PfSubmit
    \/ \E t \in Tasks : PfConsume(t)
    \/ PfCancel
    \/ PfShutdown
    \/ MainInterrupted
    \/ MainNotInterrupted
    \/ MainDone

\* The starts of Spec the fair runs are followed from: at most two files in
\* the input folder, an output folder that exists beside it, and no
\* --raw-subfolder; every refused command line as in Init.
FairScenarios == {sc \in Scenarios : Cardinality(sc.names) <= 2}

FairPaths == {paths \in GoodPaths : paths.output_folder = OUT_DIR}

FairInit ==
    /\ \/ \E sc \in FairScenarios, paths \in FairPaths, dry \in BOOLEAN,
            w \in 1..MaxPoolSize :
              RunInit(sc, paths, dry, FALSE, w, TRUE)
       \/ \E sc \in FairScenarios, paths \in BadPaths, dry \in BOOLEAN :
              RunInit(sc, paths, dry, FALSE, 1, TRUE)
       \/ \E sc \in FairScenarios, paths \in FairPaths, dry \in BOOLEAN :
              RunInit(sc, paths, dry, FALSE, 1, FALSE)
    /\ PipeStart
    /\ GenStart
    /\ CallIdle

SpecFair ==
    /\ FairInit
    /\ [][Next]_vars
    /\ WF_vars(Coordinator)
    /\ WF_vars(\E t \in Tasks : WorkerStart(t))
    /\ WF_vars(\E t \in Tasks : WorkerMove(t))

\* The candidates generate() can return for base_filename: the name itself,
\* or one of the numbered names up to the fallback's.
Probed(base_filename) ==
    {base_filename}
        \cup {Candidate(SplitStem(base_filename), k, SplitSuffix(base_filename)) :
                k \in 2..(Ceiling + 1)}

\* C26: once process_files is entered it returns, whether or not SIGINT
\* arrives and wherever it does, and the whole run ends with an exit status;
\* every generate call returned a name it reached within Ceiling probes.
C26_Terminates ==
    /\ (pc = "find_files") ~> pf_return.done
    /\ <>(pc = "exit")
    /\ [](\A i \in DOMAIN gen_log : gen_log[i].result \in Probed(gen_log[i].base))

\* process_files returned after an interrupt that cancelled a queued move,
\* in a run where generate() had to number a name.
C26_Witness ==
    /\ pf_return.done
    /\ observed.seen
    /\ \E t \in Tasks : futures[t] = "CANCELLED"
    /\ \E i \in DOMAIN gen_log : gen_log[i].result # gen_log[i].base

(***************************************************************************)
(* The counts against the disk when process_files returns.                 *)
(***************************************************************************)
\* The tasks whose file has left its source and is at its destination.
MovedOnDisk ==
    {t \in DOMAIN results :
        /\ move_tasks[t].source \notin fs_files
        /\ move_tasks[t].dest_path \in fs_files}

\* C27: when a real run of process_files returns, the success count it
\* returns and the handler's processed_count are the same number, at most
\* the number of files moved on disk; they are that number when the loop
\* never saw the flag; when it did, every move that was running then has
\* finished and was not counted.
C27_CountsAgainstDisk ==
    (pf_return.done /\ ~args.dry_run) =>
        /\ pf_return.success = success_count
        /\ pf_return.success = processed_count
        /\ processed_count <= Cardinality(MovedOnDisk)
        /\ ~observed.seen => processed_count = Cardinality(MovedOnDisk)
        /\ observed.seen =>
              \A t \in Tasks :
                  observed.states[t] = "RUNNING" =>
                      /\ futures[t] = "FINISHED"
                      /\ t \in DOMAIN results
                      /\ t \notin yielded

\* A run returned after an interrupt with fewer successes counted than files
\* moved: a move that was running at the cancellation succeeded afterwards.
C27_Witness ==
    /\ pf_return.done
    /\ ~args.dry_run
    /\ observed.seen
    /\ \E t \in Tasks :
          /\ observed.states[t] = "RUNNING"
          /\ t \in MovedOnDisk
    /\ processed_count >= 1
    /\ processed_count < Cardinality(MovedOnDisk)

(***************************************************************************)
(* The flag is first tested after the first result.                        *)
(***************************************************************************)
\* C28: until one result has been consumed and counted the loop has not
\* tested the flag and no future is cancelled; a pool created while the flag
\* is set still gets every move task submitted, and the first result is
\* counted before cancel() is called on any future.
C28_FlagAfterFirstResult ==
    /\ [](completed = 0 =>
             /\ ~observed.seen
             /\ pc # "cancel"
             /\ \A t \in Tasks : futures[t] # "CANCELLED")
    /\ [](observed.at_submit =>
             /\ Len(futures) = Len(move_tasks)
             /\ Len(futures) >= 1
             /\ (pc \in {"cancel", "shutdown", "main_check", "main_done", "exit"}) =>
                   /\ observed.seen
                   /\ completed = 1
                   /\ \E t \in yielded :
                         /\ t \in DOMAIN results
                         /\ success_count + error_count = 1)
    /\ [][(pc = "generate" /\ pc' = "as_completed" /\ interrupted) =>
             /\ observed'.at_submit
             /\ Len(futures') = Len(move_tasks)
             /\ \A t \in 1..Len(move_tasks) : futures'[t] = "PENDING"]_vars

\* The flag was set when the pool was created: one move ran and was counted
\* as a success, then a queued task was cancelled.
C28_Witness ==
    /\ observed.at_submit
    /\ observed.seen
    /\ success_count = 1
    /\ completed = 1
    /\ \E t \in Tasks : futures[t] = "CANCELLED"

(***************************************************************************)
(* process_files() called on its own, with an InterruptHandler that was    *)
(* not entered (as the tests of process_files do): SIGINT has its default  *)
(* action and raises KeyboardInterrupt in the calling thread.  The         *)
(* exception is followed between the steps of the coordinator; a run that  *)
(* the exception has left is not followed further.                         *)
(***************************************************************************)
DirectInit ==
    /\ \E sc \in Scenarios, paths \in GoodPaths, dry \in BOOLEAN,
          raw \in BOOLEAN, w \in 1..MaxPoolSize :
            RunInit(sc, paths, dry, raw, w, TRUE)
    /\ pc = "find_files"
    /\ installed = FALSE
    /\ interrupted = FALSE
    /\ processed_count = 0
    /\ files = <<>>
    /\ plan = EmptyPlan
    /\ move_tasks = <<>>
    /\ futures = <<>>
    /\ results = <<>>
    /\ yielded = {}
    /\ success_count = 0
    /\ error_count = 0
    /\ completed = 0
    /\ cancel_i = 0
    /\ pf_return = NoReturn
    /\ exit_status = -1
    /\ late_signal = FALSE
    /\ observed = [at_submit |-> FALSE, seen |-> FALSE, caught |-> FALSE,
                   states |-> <<>>]
    /\ GenStart
    /\ CallIdle

\* Mutant of KeyboardInterruptCaught: the except clause cancels what is
\* queued, as the test of the flag does.
KeyboardInterruptCancels ==
    /\ ~installed
    /\ pc = "as_completed"
    /\ interrupted' = TRUE
    /\ futures' = [t \in DOMAIN futures |-> CancelFuture(futures[t])]
    /\ observed' = [observed EXCEPT !.caught = TRUE, !.states = futures]
    /\ pc' = "shutdown"
    /\ UNCHANGED <<fsVars, genVars, callVars, args, env, installed,
                   processed_count, files, plan, move_tasks, results,
                   yielded, success_count, error_count, completed, cancel_i,
                   pf_return, exit_status, fs0, late_signal>>

\* Lines 615-618: KeyboardInterrupt inside the try block, where the
\* coordinator waits in as_completed: the flag is set and the with block is
\* left.
KeyboardInterruptCaught ==
    /\ ~installed
    /\ pc = "as_completed"
    /\ interrupted' = TRUE
    /\ observed' = [observed EXCEPT !.caught = TRUE, !.states = futures]
    /\ pc' = "shutdown"
    /\ UNCHANGED <<fsVars, genVars, callVars, args, env, installed,
                   processed_count, files, plan, move_tasks, futures, results,
                   yielded, success_count, error_count, completed, cancel_i,
                   pf_return, exit_status, fs0, late_signal>>

\* KeyboardInterrupt outside the try block (lines 511-583, and 585-626 once
\* the loop is left): nothing catches it and process_files does not return.
KeyboardInterruptRaised ==
    /\ ~installed
    /\ pc \in {"find_files", "plan", "generate", "shutdown"}
    /\ pc' = "raised"
    /\ UNCHANGED <<fsVars, genVars, callVars, args, env, installed,
                   interrupted, processed_count, files, plan, move_tasks,
                   futures, results, yielded, success_count, error_count,
                   completed, cancel_i, pf_return, exit_status, fs0,
                   late_signal, observed>>

DirectNext ==
    \/ PfFindFiles
    \/ PfPlan
    \/ PfGenerate
    \/ PfDryRun
    \/ PfSubmit
    \/ \E t \in Tasks : WorkerStart(t)
    \/ \E t \in Tasks : WorkerMove(t)
    \/ \E t \in Tasks : PfConsume(t)
    \/ PfShutdown
    \/ KeyboardInterruptCaught
    \/ KeyboardInterruptRaised

SpecDirect == DirectInit /\ [][DirectNext]_vars

(***************************************************************************)
(* The except clause (checked under SpecDirect).                           *)
(***************************************************************************)
\* C29: the except clause sets the flag and leaves the loop without
\* touching a future; from then on no result is consumed or counted and no
\* future is ever cancelled; when process_files returns after it, every
\* submitted task has run its move, those queued at the exception included,
\* and the counts returned are those of the results consumed before it.
C29_KeyboardInterrupt ==
    /\ [](observed.caught =>
             /\ interrupted
             /\ pc \notin {"as_completed", "cancel"}
             /\ Len(futures) = Len(move_tasks)
             /\ \A t \in Tasks :
                   /\ futures[t] # "CANCELLED"
                   /\ t \in yielded => observed.states[t] = "FINISHED")
    /\ []((observed.caught /\ pf_return.done) =>
             /\ \A t \in Tasks :
                   /\ futures[t] = "FINISHED"
                   /\ t \in DOMAIN results
                   /\ results[t].success <=> t \in MovedOnDisk
             /\ pf_return.success = Cardinality(Succeeded)
             /\ pf_return.errors = Cardinality(Failed))
    /\ [][(~observed.caught /\ observed'.caught) =>
             /\ interrupted'
             /\ futures' = futures
             /\ pc' = "shutdown"]_vars
    /\ [][observed.caught =>
             /\ yielded' = yielded
             /\ completed' = completed
             /\ success_count' = success_count
             /\ error_count' = error_count
             /\ processed_count' = processed_count]_vars

\* process_files returned after the exception: a move that was queued then
\* has been made since, one that was running then failed, and neither is in
\* the counts.
C29_Witness ==
    /\ observed.caught
    /\ pf_return.done
    /\ \E t \in Tasks :
          /\ observed.states[t] = "PENDING"
          /\ t \in MovedOnDisk
          /\ t \notin yielded
    /\ \E t \in Tasks :
          /\ observed.states[t] = "RUNNING"
          /\ ~results[t].success
          /\ t \notin yielded
    /\ pf_return.success + pf_return.errors < Len(move_tasks)

(***************************************************************************)
(* The four values plan_moves returns (checked under SpecCalls).           *)
(***************************************************************************)
\* The files of the call dated by their modification time: no timestamp for
\* them in file_dates, or an empty one, and an mtime that can be read.
DatedByMtime ==
    {k \in 1..Len(call.files) :
        /\ ~(/\ Name(call.files[k]) \in DOMAIN call.file_dates
             /\ call.file_dates[Name(call.files[k])] # <<>>)
        /\ Name(call.files[k]) \in DOMAIN call.mtime}

\* i < j are positions of the planned moves' files in the input list.
InInputOrder(infos) ==
    \E pos \in [1..Len(infos) -> 1..Len(call.files)] :
        /\ \A i \in 1..Len(infos) : call.files[pos[i]] = infos[i].path
        /\ \A i \in 1..Len(infos) : \A j \in 1..Len(infos) :
              i < j => pos[i] < pos[j]

\* C30: the planned moves are files of the input list in the order of that
\* list; planned and skipped files together are all the input files;
\* fallback_count counts the planned moves dated by mtime; date_folders is
\* the set of the first ten characters of the planned moves' timestamps.
C30_PlanInvariants ==
    PlanReturned =>
        /\ InInputOrder(ret.value.file_infos)
        /\ Len(ret.value.file_infos) + ret.value.skipped_count = Len(call.files)
        /\ ret.value.fallback_count = Cardinality(DatedByMtime)
        /\ ret.value.fallback_count =
              Cardinality({i \in 1..Len(ret.value.file_infos) :
                  \E k \in DatedByMtime :
                      /\ call.files[k] = ret.value.file_infos[i].path
                      /\ ret.value.file_infos[i].datetime_str
                            = call.mtime[Name(call.files[k])]})
        /\ ret.value.date_folders =
              {SubSeq(ret.value.file_infos[i].datetime_str, 1, 10) :
                  i \in 1..Len(ret.value.file_infos)}

\* Of "e.dng", "b.cr3", "a.jpg" in this order the first was dated by mtime,
\* the second skipped, the third dated by exiftool: two date folders.
C30_Witness ==
    /\ PlanReturned
    /\ call.files = <<IN_DIR \o <<E_DNG>>, IN_DIR \o <<B_CR3>>, IN_DIR \o <<A_JPG>>>>
    /\ Len(ret.value.file_infos) = 2
    /\ ret.value.file_infos[1].path = IN_DIR \o <<E_DNG>>
    /\ ret.value.file_infos[2].path = IN_DIR \o <<A_JPG>>
    /\ ret.value.skipped_count = 1
    /\ ret.value.fallback_count = 1
    /\ Cardinality(ret.value.date_folders) = 2

=============================================================================
